---- MODULE Spec2Model ----
(***************************************************************************)
(* Model of the SORT tracker of project/src/tracker.py: KalmanBoxTracker   *)
(* (one motion filter per track), Tracker.update (predict, associate,      *)
(* correct, create, prune, emit), Tracker._associate_detections_to_tracks  *)
(* and Tracker._iou.                                                       *)
(*                                                                         *)
(* Numbers.  A float is an IEEE 754 double, kept as sign, mantissa and     *)
(* exponent, with the infinities and NaN.  AddF, SubF, MulF, DivF and      *)
(* SqrtF return the correctly rounded result of the operation, as Python   *)
(* and numpy do; LtF, LeqF, GtF and EqF compare as the hardware does       *)
(* (every comparison with a NaN is false); max and min are the builtins of *)
(* Python.  The arithmetic on the mantissas is done on numbers of 112 bits *)
(* that are written as tuples of digits.                                   *)
(*                                                                         *)
(* Filter.  filterpy's KalmanFilter with the matrices of __init__.         *)
(* predict and update are the matrix formulas of filterpy, and dot adds    *)
(* the products of a row and a column from left to right onto a sum that   *)
(* starts at 0.0, so that no entry of a product is -0.0.  The state x is   *)
(* computed with the full matrices F, H and K (so a component that is not  *)
(* finite reaches the others through 0 * inf).  F, H, P, Q and R couple    *)
(* only x with vx, y with vy and s with vs, and leave r on its own; the    *)
(* covariance never reads the state or the measurement and stays finite.   *)
(* So the 7 x 7 covariance is kept as its three diagonal blocks, the one   *)
(* of x and vx (which is also the one of y and vy), the one of s and vs    *)
(* and the one of r, and the formulas are applied to each block with the   *)
(* matching sub-matrices of F, H, Q, R and the identity; the entries of P  *)
(* outside the blocks are 0.  S is diagonal, and inv(S) is taken as the    *)
(* reciprocals of its diagonal.                                            *)
(*                                                                         *)
(* Assignment.  linear_sum_assignment is computed as scipy computes it, by *)
(* the shortest augmenting path algorithm on doubles with its scan order   *)
(* and tie rules, so that among pairings of equal cost the model returns   *)
(* the one scipy returns; a matrix with a NaN makes it raise ValueError.   *)
(*                                                                         *)
(* Specifications.  Under Spec the detections of a frame are a selection   *)
(* of two objects whose boxes are disjoint; under SpecMotion one box moves *)
(* by a few pixels per frame; under SpecHuge one box is 1e170 pixels wide; *)
(* SpecAnyConfig constructs the Tracker with arbitrary arguments and       *)
(* SpecShared lets other code use the class-level id counter.  SpecAssoc,  *)
(* SpecIou and SpecGeom call the association step, _iou and the geometry   *)
(* conversions on their own, and SpecTrack drives one KalmanBoxTracker     *)
(* object through predict and update.                                      *)
(***************************************************************************)
EXTENDS Integers, Sequences, FiniteSets, TLC

\* ------------------------------------------------------------------ bounds
MaxFrames == 3
MaxDets == 2

\* ------------------------------------------------- sequence/number helpers
\* min(iou_matrix.shape), of two integers
Min(a, b) == IF a < b THEN a ELSE b

Range(s) == {s[k] : k \in 1..Len(s)}

\* <<1, ..., n>>, the model's np.arange(n) / range(n)
RECURSIVE Iota(_)
Iota(n) == IF n = 0 THEN << >> ELSE Append(Iota(n - 1), n)

\* column c of an array of index pairs
RECURSIVE Column(_, _)
Column(pairs, c) ==
  IF pairs = << >> THEN << >> ELSE << Head(pairs)[c] >> \o Column(Tail(pairs), c)

\* ----------------------------------------------------------- wide naturals
\* A natural number below 2^112 is the tuple of its digits to the base Base,
\* lowest digit first: a mantissa has 4 digits, an intermediate result 8.
Base == 16384
DigitBits == 14

\* Pow2[k + 1] = 2^k for k in 0..14
Pow2 == << 1, 2, 4, 8, 16, 32, 64, 128, 256, 512, 1024, 2048, 4096, 8192, 16384 >>

\* digit k of a, which is 0 outside the tuple
Digit(a, k) == IF k >= 1 /\ k <= Len(a) THEN a[k] ELSE 0

IsZeroDigits(a) == \A k \in 1..Len(a) : a[k] = 0

\* the number of bits of a digit n
BitLen(n) == CHOOSE k \in 0..DigitBits : n < Pow2[k + 1] /\ (k = 0 \/ n >= Pow2[k])

\* the place of the highest digit of a that is not 0, or 0
TopDigit(a) == CHOOSE k \in 0..Len(a) : (k = 0 \/ a[k] # 0) /\ \A j \in (k + 1)..Len(a) : a[j] = 0

BitsFrom(a, k) == IF k = 0 THEN 0 ELSE DigitBits * (k - 1) + BitLen(a[k])

\* the number of bits of a
BBitLen(a) == BitsFrom(a, TopDigit(a))

\* a < b
BLess(a, b) ==
  \E k \in 1..8 : /\ Digit(a, k) < Digit(b, k)
                  /\ \A j \in (k + 1)..8 : Digit(a, j) = Digit(b, j)

\* digit k of a * 2^(DigitBits * q + r)
ShlDigit(a, q, r, k) ==
  ((Digit(a, k - q) * Pow2[r + 1]) % Base) + (Digit(a, k - q - 1) \div Pow2[DigitBits - r + 1])

ShlBy(a, q, r) ==
  << ShlDigit(a, q, r, 1), ShlDigit(a, q, r, 2), ShlDigit(a, q, r, 3), ShlDigit(a, q, r, 4),
     ShlDigit(a, q, r, 5), ShlDigit(a, q, r, 6), ShlDigit(a, q, r, 7), ShlDigit(a, q, r, 8) >>

\* a * 2^t, which must stay below 2^112
BShl(a, t) == ShlBy(a, t \div DigitBits, t % DigitBits)

\* digit k of a \div 2^(DigitBits * q + r)
ShrDigit(a, q, r, k) ==
  (Digit(a, k + q) \div Pow2[r + 1]) + ((Digit(a, k + q + 1) % Pow2[r + 1]) * Pow2[DigitBits - r + 1])

ShrBy(a, q, r) ==
  << ShrDigit(a, q, r, 1), ShrDigit(a, q, r, 2), ShrDigit(a, q, r, 3), ShrDigit(a, q, r, 4),
     ShrDigit(a, q, r, 5), ShrDigit(a, q, r, 6), ShrDigit(a, q, r, 7), ShrDigit(a, q, r, 8) >>

\* a \div 2^t
BShr(a, t) == ShrBy(a, t \div DigitBits, t % DigitBits)

\* bit t of a (bit 0 is the lowest)
BBit(a, t) == (Digit(a, (t \div DigitBits) + 1) \div Pow2[(t % DigitBits) + 1]) % 2

\* a % 2^t = 0
BLowZero(a, t) ==
  /\ \A j \in 1..(t \div DigitBits) : Digit(a, j) = 0
  /\ Digit(a, (t \div DigitBits) + 1) % Pow2[(t % DigitBits) + 1] = 0

\* a carry reaches digit k of a + b
SumAt(a, b, k) == Digit(a, k) + Digit(b, k)

CarryInto(a, b, k) ==
  \E j \in 1..(k - 1) : /\ SumAt(a, b, j) >= Base
                        /\ \A m \in (j + 1)..(k - 1) : SumAt(a, b, m) = Base - 1

AddDigit(a, b, k) == (SumAt(a, b, k) + (IF CarryInto(a, b, k) THEN 1 ELSE 0)) % Base

\* a + b, which must stay below 2^112
BAdd(a, b) ==
  << AddDigit(a, b, 1), AddDigit(a, b, 2), AddDigit(a, b, 3), AddDigit(a, b, 4),
     AddDigit(a, b, 5), AddDigit(a, b, 6), AddDigit(a, b, 7), AddDigit(a, b, 8) >>

DiffAt(a, b, k) == Digit(a, k) - Digit(b, k)

\* digit k of a - b lends one to a lower digit
BorrowFrom(a, b, k) ==
  \E j \in 1..(k - 1) : /\ DiffAt(a, b, j) < 0
                        /\ \A m \in (j + 1)..(k - 1) : DiffAt(a, b, m) = 0

SubDigit(a, b, k) == (DiffAt(a, b, k) - (IF BorrowFrom(a, b, k) THEN 1 ELSE 0) + Base) % Base

\* a - b for a >= b
BSub(a, b) ==
  << SubDigit(a, b, 1), SubDigit(a, b, 2), SubDigit(a, b, 3), SubDigit(a, b, 4),
     SubDigit(a, b, 5), SubDigit(a, b, 6), SubDigit(a, b, 7), SubDigit(a, b, 8) >>

\* the sum of the products of the digits of a and b that make digit k of
\* a * b, for an a of at most 4 digits: it is less than 2^30
ProductColumn(a, b, k) ==
  Digit(a, 1) * Digit(b, k) + Digit(a, 2) * Digit(b, k - 1)
    + Digit(a, 3) * Digit(b, k - 2) + Digit(a, 4) * Digit(b, k - 3)

ProductColumns(a, b) ==
  << ProductColumn(a, b, 1), ProductColumn(a, b, 2), ProductColumn(a, b, 3), ProductColumn(a, b, 4),
     ProductColumn(a, b, 5), ProductColumn(a, b, 6), ProductColumn(a, b, 7), ProductColumn(a, b, 8) >>

\* the three digits of every column, each at its place
LowDigits(c) ==
  << c[1] % Base, c[2] % Base, c[3] % Base, c[4] % Base,
     c[5] % Base, c[6] % Base, c[7] % Base, c[8] % Base >>

MidDigits(c) ==
  << 0, (c[1] \div Base) % Base, (c[2] \div Base) % Base, (c[3] \div Base) % Base,
     (c[4] \div Base) % Base, (c[5] \div Base) % Base, (c[6] \div Base) % Base,
     (c[7] \div Base) % Base >>

HighDigits(c) ==
  << 0, 0, c[1] \div (Base * Base), c[2] \div (Base * Base), c[3] \div (Base * Base),
     c[4] \div (Base * Base), c[5] \div (Base * Base), c[6] \div (Base * Base) >>

Carried(c) == BAdd(BAdd(LowDigits(c), MidDigits(c)), HighDigits(c))

\* a * b for an a of at most 4 digits, which must stay below 2^112
BMul(a, b) == Carried(ProductColumns(a, b))

\* a * Base + d
Push(a, d) == << d, a[1], a[2], a[3], a[4], a[5], a[6], a[7] >>

\* ---- division
\* The state of a long division by d is << the remainder, the digits of the
\* quotient so far, highest first >>.
\* the next digit of the quotient: cur \div d for cur < d * Base and a d of 4
\* digits with d[4] >= Base / 2, which the quotient of the leading digits
\* exceeds by 2 at most
DivGuess(cur, d) ==
  IF (cur[5] * Base + cur[4]) \div d[4] >= Base THEN Base - 1
  ELSE (cur[5] * Base + cur[4]) \div d[4]

\* << the digit, what is left of cur >> for the guess g and p = g * d: the
\* guess is lowered until p fits in cur
RECURSIVE DivPick(_, _, _, _)
DivPick(cur, d, g, p) ==
  IF BLess(cur, p) THEN DivPick(cur, d, g - 1, BSub(p, d)) ELSE << g, BSub(cur, p) >>

\* the state after one more digit of the quotient
DivStep(st, d) ==
  CHOOSE next \in
    { << t[2], Append(st[2], t[1]) >> :
        t \in { DivPick(x[1], d, x[2], x[3]) :
                  x \in { << cur, DivGuess(cur, d), BMul(<< DivGuess(cur, d) >>, d) >> :
                            cur \in { Push(st[1], 0) } } } } : TRUE

DivFirst(a, d) == IF BLess(a, d) THEN << a, << 0 >> >> ELSE << BSub(a, d), << 1 >> >>

\* << (a * Base^4) % d, the 5 digits of (a * Base^4) \div d >> for a and d in
\* 2^55 .. 2^56 - 1
RECURSIVE DivSteps(_, _, _)
DivSteps(a, d, n) == IF n = 0 THEN DivFirst(a, d) ELSE DivStep(DivSteps(a, d, n - 1), d)

BDiv(a, d) == DivSteps(a, d, 4)

\* ---- square root
\* The state is << the root so far, the remainder >>.
\* the root of v in 2^26 .. 2^28 - 1
RootHigh(v) == CHOOSE h \in 64..127 : (128 * h) * (128 * h) <= v /\ v < (128 * (h + 1)) * (128 * (h + 1))

RootLow(v, h) ==
  CHOOSE l \in 0..127 : /\ (128 * h + l) * (128 * h + l) <= v
                        /\ v < (128 * h + l + 1) * (128 * h + l + 1)

RootOfPair(v, h) == 128 * h + RootLow(v, h)

Isqrt(v) == RootOfPair(v, RootHigh(v))

SqrtStart(v, s) ==
  << << s, 0, 0, 0, 0, 0, 0, 0 >>,
     << (v - s * s) % Base, (v - s * s) \div Base, 0, 0, 0, 0, 0, 0 >> >>

SqrtFirst(n) == SqrtStart(n[8] * Base + n[7], Isqrt(n[8] * Base + n[7]))

\* (2 * p * Base + c) * c for the double dbl of the root so far
SqrtTerm(dbl, c) == BMul(<< c >>, Push(dbl, c))

SqrtFits(cur, dbl, c) == ~ BLess(cur, SqrtTerm(dbl, c))

\* the quotient of the leading digits of cur \div Base and dbl, for a root so
\* far of k digits: the next digit of the root is between it - 3 and it + 1
SqrtGuess(cur, dbl, k) ==
  (cur[k + 1] + cur[k + 2] * Base + cur[k + 3] * Base * Base) \div (dbl[k + 1] * Base + dbl[k])

\* the largest digit up to c that fits
RECURSIVE SqrtPick(_, _, _)
SqrtPick(cur, dbl, c) ==
  IF c < Base /\ SqrtFits(cur, dbl, c) THEN c ELSE SqrtPick(cur, dbl, c - 1)

\* the state after the next digit of the root, which the next two digits hi
\* and lo of n give
SqrtStep(st, k, hi, lo) ==
  CHOOSE next \in
    { << Push(st[1], t[3]), BSub(t[1], t[4]) >> :
        t \in { << x[1], x[2], x[3], SqrtTerm(x[2], x[3]) >> :
                  x \in { << y[1], y[2], SqrtPick(y[1], y[2], SqrtGuess(y[1], y[2], k) + 1) >> :
                            y \in { << Push(Push(st[2], hi), lo), BShl(st[1], 1) >> } } } } : TRUE

\* << r, n - r * r >> for the largest r with r * r <= n, n in 2^110 .. 2^112 - 1
RECURSIVE SqrtSteps(_, _)
SqrtSteps(n, k) ==
  IF k = 0 THEN SqrtFirst(n) ELSE SqrtStep(SqrtSteps(n, k - 1), k, n[8 - 2 * k], n[7 - 2 * k])

BSqrt(n) == SqrtSteps(n, 3)

\* ------------------------------------------------------------------- floats
\* A float is an IEEE 754 double.  The finite double (-1)^neg * man * 2^exp is
\* [cls |-> "fin", neg, exp, man], man the 4 digits of a number below 2^53:
\* it is at least 2^52 unless exp is the least exponent MinExp, where the
\* subnormal numbers and the zeros 0.0 and -0.0 are.  float('inf') and its
\* negative have cls = "inf", float('nan') has cls = "nan".  Every operation
\* returns the double nearest to the exact result, a tie going to the even
\* mantissa, as the hardware does.
ManBits == 53
MinExp == 0 - 1074
MaxExp == 971

NaN == [ cls |-> "nan", neg |-> FALSE, exp |-> 0, man |-> << 0, 0, 0, 0 >> ]
Inf == [ cls |-> "inf", neg |-> FALSE, exp |-> 0, man |-> << 0, 0, 0, 0 >> ]
SignedInf(neg) == [ cls |-> "inf", neg |-> neg, exp |-> 0, man |-> << 0, 0, 0, 0 >> ]
SignedZero(neg) == [ cls |-> "fin", neg |-> neg, exp |-> MinExp, man |-> << 0, 0, 0, 0 >> ]

IsNaN(v) == v.cls = "nan"
IsInf(v) == v.cls = "inf"
IsZero(v) == v.cls = "fin" /\ v.man = << 0, 0, 0, 0 >>

\* t * 2^q for a t of 53 bits, or for t = 2^53
Pack(neg, t, q) ==
  IF IsZeroDigits(t) THEN SignedZero(neg)
  ELSE IF q + (IF t[4] = 2048 THEN 1 ELSE 0) > MaxExp THEN SignedInf(neg)
  ELSE IF t[4] = 2048
  THEN [ cls |-> "fin", neg |-> neg, exp |-> q + 1, man |-> << 0, 0, 0, 1024 >> ]
  ELSE [ cls |-> "fin", neg |-> neg, exp |-> q, man |-> << t[1], t[2], t[3], t[4] >> ]

\* the lowest drop bits of m are more than half of bit drop, or half of it
\* and bit drop is odd
RoundsUp(m, drop) == BBit(m, drop - 1) = 1 /\ (BBit(m, drop) = 1 \/ ~ BLowZero(m, drop - 1))

\* m with the lowest drop bits rounded away
Rounded(m, drop) ==
  IF drop <= 0 THEN BShl(m, 0 - drop)
  ELSE BAdd(BShr(m, drop), << IF RoundsUp(m, drop) THEN 1 ELSE 0 >>)

\* the number of bits that m * 2^e has too many for a double
Drop(e, len) == IF len - ManBits < MinExp - e THEN MinExp - e ELSE len - ManBits

\* the double nearest to (-1)^neg * m * 2^e
RoundF(neg, m, e) ==
  CHOOSE r \in
    { Pack(neg, t[1], e + t[2]) :
        t \in { << Rounded(w[1], w[2]), w[2] >> :
                  w \in { << v, Drop(e, BBitLen(v)) >> : v \in { m } } } } : TRUE

\* float(n) for an integer n, which has 31 bits or less: no bit is lost
Normal(neg, m, len) == Pack(neg, BShl(m, ManBits - len), len - ManBits)

FloatOf(neg, n) ==
  Normal(neg, << n % Base, (n \div Base) % Base, n \div (Base * Base) >>,
         BBitLen(<< n % Base, (n \div Base) % Base, n \div (Base * Base) >>))

float(n) == FloatOf(n < 0, IF n < 0 THEN 0 - n ELSE n)

\* -a
NegF(a) == IF IsNaN(a) THEN a ELSE [ a EXCEPT !.neg = ~ a.neg ]

\* |a| < |b| for a and b that are no NaN
LessAbs(a, b) ==
  IF IsInf(a) THEN FALSE
  ELSE IF IsInf(b) THEN TRUE
  ELSE a.exp < b.exp \/ (a.exp = b.exp /\ BLess(a.man, b.man))

\* a < b, a == b, a <= b, a > b: all false when one of them is NaN
LtF(a, b) ==
  IF IsNaN(a) \/ IsNaN(b) \/ (IsZero(a) /\ IsZero(b)) THEN FALSE
  ELSE IF a.neg # b.neg THEN a.neg
  ELSE IF a.neg THEN LessAbs(b, a)
  ELSE LessAbs(a, b)

EqF(a, b) == ~ IsNaN(a) /\ ~ IsNaN(b) /\ (a = b \/ (IsZero(a) /\ IsZero(b)))
LeqF(a, b) == LtF(a, b) \/ EqF(a, b)
GtF(a, b) == LtF(b, a)

\* hi + lo for finite hi and lo, lo of the smaller exponent and ahead by at
\* most 54 bits
\* the sign of the sum: that of the larger one, and + for x + (-x)
SumSign(hi, mh, lo) ==
  IF hi.neg = lo.neg \/ BLess(lo.man, mh) THEN hi.neg ELSE BLess(mh, lo.man) /\ lo.neg

\* |a - b|
BDiff(a, b, swap) == BSub(IF swap THEN b ELSE a, IF swap THEN a ELSE b)

AddWide(hi, mh, lo) ==
  RoundF(SumSign(hi, mh, lo),
         IF hi.neg = lo.neg THEN BAdd(mh, lo.man) ELSE BDiff(mh, lo.man, BLess(mh, lo.man)),
         lo.exp)

\* a lo that is 55 bits or more behind is less than a quarter of the last
\* bit of hi, and the sum rounds to hi
AddOrdered(hi, lo) ==
  IF hi.exp - lo.exp > ManBits + 1 THEN hi
  ELSE AddWide(hi, BShl(hi.man, hi.exp - lo.exp), lo)

\* a + b
AddSpecial(a, b) ==
  IF IsNaN(a) \/ IsNaN(b) \/ (IsInf(a) /\ IsInf(b) /\ a.neg # b.neg) THEN NaN
  ELSE IF IsInf(a) THEN a
  ELSE b

AddF(a, b) ==
  IF a.cls # "fin" \/ b.cls # "fin" THEN AddSpecial(a, b)
  ELSE IF IsZeroDigits(b.man) /\ ~ IsZeroDigits(a.man) THEN a
  ELSE IF IsZeroDigits(a.man) /\ ~ IsZeroDigits(b.man) THEN b
  ELSE AddOrdered(IF a.exp >= b.exp THEN a ELSE b, IF a.exp >= b.exp THEN b ELSE a)

\* a - b
SubF(a, b) == AddF(a, NegF(b))

\* |v| = 1.0
IsOne(v) == v.exp = 1 - ManBits /\ v.man = << 0, 0, 0, 1024 >>

\* a * b
MulSpecial(a, b) ==
  IF IsNaN(a) \/ IsNaN(b) \/ IsZero(a) \/ IsZero(b) THEN NaN ELSE SignedInf(a.neg # b.neg)

MulF(a, b) ==
  IF a.cls # "fin" \/ b.cls # "fin" THEN MulSpecial(a, b)
  ELSE IF IsZeroDigits(a.man) \/ IsZeroDigits(b.man) THEN SignedZero(a.neg # b.neg)
  ELSE IF IsOne(b) THEN [ a EXCEPT !.neg = a.neg # b.neg ]
  ELSE IF IsOne(a) THEN [ b EXCEPT !.neg = a.neg # b.neg ]
  ELSE RoundF(a.neg # b.neg, BMul(a.man, b.man), a.exp + b.exp)

\* the mantissa of a finite v # 0 moved up to len bits, and the exponent that
\* goes with it
Mantissa(v, len) == BShl(v.man, len - BBitLen(v.man))
Exponent(v, len) == v.exp - (len - BBitLen(v.man))

\* twice the quotient, and one more when the division left a remainder
DivRound(neg, st, e) ==
  RoundF(neg, BAdd(BShl(<< st[2][5], st[2][4], st[2][3], st[2][2], st[2][1] >>, 1),
                   << IF IsZeroDigits(st[1]) THEN 0 ELSE 1 >>), e)

DivFinite(neg, a, b) ==
  CHOOSE r \in
    { DivRound(neg, st, Exponent(a, 56) - Exponent(b, 56) - 57) :
        st \in { BDiv(x[1], x[2]) : x \in { << Mantissa(a, 56), Mantissa(b, 56) >> } } } : TRUE

\* a / b of IEEE 754, as numpy divides (a Python float raises
\* ZeroDivisionError for b = 0, which no division of the tracker can meet)
DivSpecial(a, b) ==
  IF IsNaN(a) \/ IsNaN(b) \/ (IsInf(a) /\ IsInf(b)) \/ (IsZero(a) /\ IsZero(b)) THEN NaN
  ELSE IF IsInf(a) \/ IsZero(b) THEN SignedInf(a.neg # b.neg)
  ELSE SignedZero(a.neg # b.neg)

DivF(a, b) ==
  IF a.cls # "fin" \/ b.cls # "fin" \/ IsZeroDigits(a.man) \/ IsZeroDigits(b.man)
  THEN DivSpecial(a, b)
  ELSE IF b.man = << 0, 0, 0, 1024 >>
  THEN RoundF(a.neg # b.neg, a.man, a.exp - b.exp - (ManBits - 1))
  ELSE DivFinite(a.neg # b.neg, a, b)

\* twice the root, and one more when the root left a remainder
SqrtRound(st, h) ==
  RoundF(FALSE, BAdd(BShl(st[1], 1), << IF IsZeroDigits(st[2]) THEN 0 ELSE 1 >>), h - 1)

\* the root of m * 2^e for an even e and m in 2^52 .. 2^54 - 1
SqrtEven(m, e) ==
  CHOOSE r \in { SqrtRound(st, (e - 58) \div 2) : st \in { BSqrt(n) : n \in { BShl(m, 58) } } } : TRUE

SqrtFinite(m, e) == SqrtEven(BShl(m, e % 2), e - (e % 2))

\* np.sqrt(a): nan for a < 0
SqrtF(a) ==
  IF IsNaN(a) \/ IsZero(a) \/ (IsInf(a) /\ ~ a.neg) THEN a
  ELSE IF a.neg THEN NaN
  ELSE SqrtFinite(Mantissa(a, ManBits), Exponent(a, ManBits))

\* max(a, b) and min(a, b) of Python: the first argument unless the second
\* is greater (smaller), which a NaN never is
max(a, b) == IF GtF(b, a) THEN b ELSE a
min(a, b) == IF LtF(b, a) THEN b ELSE a

\* ----------------------------------------------------------------- literals
\* the doubles that the literals of the source denote: 1.0 = 2^52 * 2^-52,
\* 2.0, 10.0 = 5 * 2^50 * 2^-49, 1000.0 = 125 * 2^46 * 2^-43, and the doubles
\* nearest to 0.01 (5764607523034235 * 2^-59) and 1e170 (7458340731200207 *
\* 2^512)
Zero == SignedZero(FALSE)
One == [ cls |-> "fin", neg |-> FALSE, exp |-> 0 - 52, man |-> << 0, 0, 0, 1024 >> ]
Two == [ cls |-> "fin", neg |-> FALSE, exp |-> 0 - 51, man |-> << 0, 0, 0, 1024 >> ]
Ten == [ cls |-> "fin", neg |-> FALSE, exp |-> 0 - 49, man |-> << 0, 0, 0, 1280 >> ]
Thousand == [ cls |-> "fin", neg |-> FALSE, exp |-> 0 - 43, man |-> << 0, 0, 0, 2000 >> ]
Hundredth == [ cls |-> "fin", neg |-> FALSE, exp |-> 0 - 59, man |-> << 5243, 7864, 11796, 1310 >> ]
E170 == [ cls |-> "fin", neg |-> FALSE, exp |-> 512, man |-> << 8911, 6038, 13604, 1695 >> ]

\* the doubles nearest to 0.3, 0.5, 0.7, 0.85, 0.9 and 1.5
Lit0_3 == [ cls |-> "fin", neg |-> FALSE, exp |-> 0 - 54, man |-> << 13107, 3276, 13107, 1228 >> ]
Lit0_5 == [ cls |-> "fin", neg |-> FALSE, exp |-> 0 - 53, man |-> << 0, 0, 0, 1024 >> ]
Lit0_7 == [ cls |-> "fin", neg |-> FALSE, exp |-> 0 - 53, man |-> << 9830, 6553, 9830, 1433 >> ]
Lit0_85 == [ cls |-> "fin", neg |-> FALSE, exp |-> 0 - 53, man |-> << 13107, 3276, 13107, 1740 >> ]
Lit0_9 == [ cls |-> "fin", neg |-> FALSE, exp |-> 0 - 53, man |-> << 3277, 13107, 3276, 1843 >> ]
Lit1_5 == [ cls |-> "fin", neg |-> FALSE, exp |-> 0 - 52, man |-> << 0, 0, 0, 1536 >> ]

\* a / 2.0
HalfF(a) == DivF(a, Two)

\* the box [x1, y1, x2, y2] with corners at whole pixels
Box(x1, y1, x2, y2) == << float(x1), float(y1), float(x2), float(y2) >>

\* ------------------------------------------------------------------ matrices
\* A matrix is the tuple of its rows, a column vector a matrix of one column.
RECURSIVE MatrixColumn(_, _)
MatrixColumn(cost, j) ==
  IF cost = << >> THEN << >> ELSE << Head(cost)[j] >> \o MatrixColumn(Tail(cost), j)

\* the transposed matrix: its rows j..nc
RECURSIVE Transpose(_, _, _)
Transpose(cost, j, nc) ==
  IF j > nc THEN << >> ELSE << MatrixColumn(cost, j) >> \o Transpose(cost, j + 1, nc)

\* a.T of an array a
Transposed(a) == Transpose(a, 1, Len(a[1]))

\* the column vector of a tuple, and back
RECURSIVE AsColumn(_)
AsColumn(v) == IF v = << >> THEN << >> ELSE << << Head(v) >> >> \o AsColumn(Tail(v))

AsVector(a) == MatrixColumn(a, 1)

\* 0.0 + a[1] * b[1] + ... + a[n] * b[n]: np.dot adds the products, from the
\* first on, onto a sum that starts at 0.0 (a row of products that are all
\* -0.0 therefore sums to 0.0)
RECURSIVE SumProducts(_, _, _)
SumProducts(a, b, n) ==
  IF n = 0 THEN Zero
  ELSE CHOOSE d \in
         { AddF(q[1], q[2]) :
             q \in { << SumProducts(a, b, n - 1), MulF(a[n], b[n]) >> } } : TRUE

\* the first m entries of the row of dot(a, b) that the row r of a makes, for
\* bT = b.T
RECURSIVE RowTimes(_, _, _)
RowTimes(r, bT, m) ==
  IF m = 0 THEN << >> ELSE Append(RowTimes(r, bT, m - 1), SumProducts(r, bT[m], Len(r)))

RECURSIVE Rows(_, _, _)
Rows(a, bT, n) == IF n = 0 THEN << >> ELSE Append(Rows(a, bT, n - 1), RowTimes(a[n], bT, Len(bT)))

\* np.dot(a, b) of two matrices
dot(a, b) == Rows(a, Transposed(b), Len(a))

\* a + b of two matrices: of two rows, and of the first n rows
RECURSIVE RowPlus(_, _, _)
RowPlus(r, q, m) == IF m = 0 THEN << >> ELSE Append(RowPlus(r, q, m - 1), AddF(r[m], q[m]))

RECURSIVE PlusRows(_, _, _)
PlusRows(a, b, n) == IF n = 0 THEN << >> ELSE Append(PlusRows(a, b, n - 1), RowPlus(a[n], b[n], Len(a[n])))

Plus(a, b) == PlusRows(a, b, Len(a))

\* a - b
RECURSIVE RowMinus(_, _, _)
RowMinus(r, q, m) == IF m = 0 THEN << >> ELSE Append(RowMinus(r, q, m - 1), SubF(r[m], q[m]))

RECURSIVE MinusRows(_, _, _)
MinusRows(a, b, n) == IF n = 0 THEN << >> ELSE Append(MinusRows(a, b, n - 1), RowMinus(a[n], b[n], Len(a[n])))

Minus(a, b) == MinusRows(a, b, Len(a))

\* the entries n.. of the vector d multiplied by c: d[n - 1:] *= c
RECURSIVE ScaledFrom(_, _, _, _)
ScaledFrom(d, n, c, k) ==
  IF k = 0 THEN << >>
  ELSE Append(ScaledFrom(d, n, c, k - 1), IF k >= n THEN MulF(d[k], c) ELSE d[k])

\* the entries of the row r at the places cols
RECURSIVE Pick(_, _)
Pick(r, cols) == IF cols = << >> THEN << >> ELSE << r[Head(cols)] >> \o Pick(r, Tail(cols))

\* a[rows][:, cols]
RECURSIVE SubMatrix(_, _, _)
SubMatrix(a, rows, cols) ==
  IF rows = << >> THEN << >> ELSE << Pick(a[Head(rows)], cols) >> \o SubMatrix(a, Tail(rows), cols)

\* ----------------------------------------------------------- KalmanBoxTracker
\* mutation: the corner of the box is taken for its centre
_bbox_to_z_CornerAsCentre(bbox) ==
  CHOOSE z \in
    { << bbox[1], bbox[2], MulF(wh[1], wh[2]),
         IF GtF(wh[2], Zero) THEN DivF(wh[1], wh[2]) ELSE One >> :
        wh \in { << SubF(bbox[3], bbox[1]), SubF(bbox[4], bbox[2]) >> } } : TRUE

\* _bbox_to_z: [x1,y1,x2,y2] -> [x, y, s, r] with w = wh[1], h = wh[2]:
\* x = bbox[0] + w / 2.0, y = bbox[1] + h / 2.0, s = w * h,
\* r = w / float(h) if h > 0 else 1.0
_bbox_to_z(bbox) ==
  CHOOSE z \in
    { << AddF(bbox[1], HalfF(wh[1])), AddF(bbox[2], HalfF(wh[2])), MulF(wh[1], wh[2]),
         IF GtF(wh[2], Zero) THEN DivF(wh[1], wh[2]) ELSE One >> :
        wh \in { << SubF(bbox[3], bbox[1]), SubF(bbox[4], bbox[2]) >> } } : TRUE

\* << w, h >> of _z_to_bbox: w = np.sqrt(s * r), h = s / w if w > 0 else 0
WidthHeight(s, r) ==
  CHOOSE wh \in
    { << w, IF GtF(w, Zero) THEN DivF(s, w) ELSE Zero >> :
        w \in { SqrtF(p) : p \in { MulF(s, r) } } } : TRUE

\* _z_to_bbox: [x, y, s, r] -> [x1,y1,x2,y2] =
\* [x - w / 2.0, y - h / 2.0, x + w / 2.0, y + h / 2.0]
_z_to_bbox(z) ==
  CHOOSE bbox \in
    { << SubF(z[1], half[1]), SubF(z[2], half[2]), AddF(z[1], half[1]), AddF(z[2], half[2]) >> :
        half \in { << HalfF(wh[1]), HalfF(wh[2]) >> : wh \in { WidthHeight(z[3], z[4]) } } } : TRUE

\* ------------------------------------------------------- filterpy.KalmanFilter
\* The filter of one track.  x is kf.x = [x, y, s, r, vx, vy, vs].  F, H, P, Q
\* and R of KalmanBoxTracker.__init__ are block-diagonal: x with vx, y with vy
\* and s with vs are each a constant-velocity filter of their own, and r is
\* filtered alone.  kf.P is the tuple of the blocks of P: P[1] the rows and
\* columns of x and vx, which those of y and vy are equal to, P[2] those of s
\* and vs, P[3] that of r.  All other entries of P are 0.

\* self.kf.F
F ==
  << << One, Zero, Zero, Zero, One, Zero, Zero >>,
     << Zero, One, Zero, Zero, Zero, One, Zero >>,
     << Zero, Zero, One, Zero, Zero, Zero, One >>,
     << Zero, Zero, Zero, One, Zero, Zero, Zero >>,
     << Zero, Zero, Zero, Zero, One, Zero, Zero >>,
     << Zero, Zero, Zero, Zero, Zero, One, Zero >>,
     << Zero, Zero, Zero, Zero, Zero, Zero, One >> >>

\* self.kf.H
H ==
  << << One, Zero, Zero, Zero, Zero, Zero, Zero >>,
     << Zero, One, Zero, Zero, Zero, Zero, Zero >>,
     << Zero, Zero, One, Zero, Zero, Zero, Zero >>,
     << Zero, Zero, Zero, One, Zero, Zero, Zero >> >>

\* np.eye(dim_x)
Eye ==
  << << One, Zero, Zero, Zero, Zero, Zero, Zero >>,
     << Zero, One, Zero, Zero, Zero, Zero, Zero >>,
     << Zero, Zero, One, Zero, Zero, Zero, Zero >>,
     << Zero, Zero, Zero, One, Zero, Zero, Zero >>,
     << Zero, Zero, Zero, Zero, One, Zero, Zero >>,
     << Zero, Zero, Zero, Zero, Zero, One, Zero >>,
     << Zero, Zero, Zero, Zero, Zero, Zero, One >> >>

\* the diagonal of self.kf.R = diag(1, 1, 10, 10): R[2:, 2:] *= 10.0
R == ScaledFrom(<< One, One, One, One >>, 3, Ten, 4)

\* the diagonal of self.kf.Q = diag(1, 1, 1, 1, 0.01, 0.01, 0.0001):
\* Q[-1, -1] *= 0.01, then Q[4:, 4:] *= 0.01
Q == ScaledFrom(ScaledFrom(<< One, One, One, One, One, One, One >>, 7, Hundredth, 7), 5, Hundredth, 7)

\* the diagonal of self.kf.P = diag(10, 10, 10, 10, 1e4, 1e4, 1e4):
\* P[4:, 4:] *= 1000.0, then P *= 10.0
P0 == ScaledFrom(ScaledFrom(<< One, One, One, One, One, One, One >>, 5, Thousand, 7), 1, Ten, 7)

\* the places in x of the entries of block b, and the places in z of the
\* entries that measure them
StateIndex == << << 1, 5 >>, << 3, 7 >>, << 4 >> >>
MeasureIndex == << << 1 >>, << 3 >>, << 4 >> >>

\* the diagonal matrix of the entries of d at the places idx
RECURSIVE DiagonalRow(_, _, _, _)
DiagonalRow(d, idx, i, m) ==
  IF m = 0 THEN << >>
  ELSE Append(DiagonalRow(d, idx, i, m - 1), IF m = i THEN d[idx[m]] ELSE Zero)

RECURSIVE DiagonalRows(_, _, _)
DiagonalRows(d, idx, n) ==
  IF n = 0 THEN << >> ELSE Append(DiagonalRows(d, idx, n - 1), DiagonalRow(d, idx, n, Len(idx)))

Diagonal(d, idx) == DiagonalRows(d, idx, Len(idx))

\* mutation: the state is not seeded with the box (x stays 0)
KalmanFilter_Unseeded(z) ==
  [ x |-> << Zero, Zero, Zero, Zero, Zero, Zero, Zero >>,
    P |-> << Diagonal(P0, StateIndex[1]), Diagonal(P0, StateIndex[2]), Diagonal(P0, StateIndex[3]) >> ]

\* KalmanFilter(dim_x=7, dim_z=4) as __init__ leaves it: x[:4] = z, velocities
\* 0, P = diag(10, 10, 10, 10, 1e4, 1e4, 1e4)
KalmanFilter(z) ==
  [ x |-> << z[1], z[2], z[3], z[4], Zero, Zero, Zero >>,
    P |-> << Diagonal(P0, StateIndex[1]), Diagonal(P0, StateIndex[2]), Diagonal(P0, StateIndex[3]) >> ]

\* the block of P = dot(dot(F, P), F.T) + Q for the block p of P, f of F and
\* q of Q
PredictBlock(p, f, q) == Plus(dot(dot(f, p), Transposed(f)), q)

RECURSIVE PredictBlocks(_, _)
PredictBlocks(P, b) ==
  IF b = 0 THEN << >>
  ELSE Append(PredictBlocks(P, b - 1),
              PredictBlock(P[b], SubMatrix(F, StateIndex[b], StateIndex[b]), Diagonal(Q, StateIndex[b])))

\* kf.predict(): x = dot(F, x), P = dot(dot(F, P), F.T) + Q
kf_predict(kf) ==
  [ x |-> AsVector(dot(F, AsColumn(kf.x))),
    P |-> PredictBlocks(kf.P, 3) ]

\* SI = inv(S) of the diagonal matrix S, which a block has one entry of
Inverse(S) == << << DivF(One, S[1][1]) >> >>

\* P = dot(dot(I_KH, P), I_KH.T) + dot(dot(K, R), K.T)
Joseph(p, I_KH, K, r) == Plus(dot(dot(I_KH, p), Transposed(I_KH)), dot(dot(K, r), Transposed(K)))

\* K and the new P of a block p of P, with the blocks h of H, r of R and I
\* of the identity: PHT = dot(P, H.T), S = dot(H, PHT) + R,
\* K = dot(PHT, inv(S)), I_KH = I - dot(K, H)
UpdateBlock(p, h, r, I) ==
  CHOOSE new \in
    { [ K |-> K, P |-> Joseph(p, I_KH, K, r) ] :
        << K, I_KH >> \in
          { << K, Minus(I, dot(K, h)) >> :
              K \in { dot(PHT, Inverse(Plus(dot(h, PHT), r))) : PHT \in { dot(p, Transposed(h)) } } } } : TRUE

RECURSIVE UpdateBlocks(_, _)
UpdateBlocks(P, b) ==
  IF b = 0 THEN << >>
  ELSE Append(UpdateBlocks(P, b - 1),
              UpdateBlock(P[b], SubMatrix(H, MeasureIndex[b], StateIndex[b]),
                          Diagonal(R, MeasureIndex[b]), SubMatrix(Eye, StateIndex[b], StateIndex[b])))

\* self.K from the gains of the blocks: k of x and of y, ks of s, kr of r
GainMatrix(k, ks, kr) ==
  << << k[1][1], Zero, Zero, Zero >>,
     << Zero, k[1][1], Zero, Zero >>,
     << Zero, Zero, ks[1][1], Zero >>,
     << Zero, Zero, Zero, kr[1][1] >>,
     << k[2][1], Zero, Zero, Zero >>,
     << Zero, k[2][1], Zero, Zero >>,
     << Zero, Zero, ks[2][1], Zero >> >>

\* kf.update(z): y = z - dot(H, x), S = dot(H, dot(P, H.T)) + R,
\* K = dot(dot(P, H.T), inv(S)), x = x + dot(K, y),
\* P = dot(dot(I_KH, P), I_KH.T) + dot(dot(K, R), K.T)
kf_update(kf, z) ==
  CHOOSE new \in
    { [ x |-> AsVector(Plus(AsColumn(kf.x), dot(GainMatrix(u[1].K, u[2].K, u[3].K), y))),
        P |-> << u[1].P, u[2].P, u[3].P >> ] :
        << u, y >> \in
          { << UpdateBlocks(kf.P, 3), Minus(AsColumn(z), dot(H, AsColumn(kf.x))) >> } } : TRUE

\* mutation: the creating detection is counted as the first hit
KalmanBoxTracker_HitOnCreate(bbox, cnt, born) ==
  [ kf |-> KalmanFilter(_bbox_to_z(bbox)),
    time_since_update |-> 0,
    id |-> cnt,
    hits |-> 1,
    hit_streak |-> 1,
    age |-> 0,
    born |-> born ]

\* mutation: the id is taken from the loop index of the creating detection
KalmanBoxTracker_IndexAsId(bbox, cnt, born) ==
  [ kf |-> KalmanFilter(_bbox_to_z(bbox)),
    time_since_update |-> 0,
    id |-> born[2] - 1,
    hits |-> 0,
    hit_streak |-> 0,
    age |-> 0,
    born |-> born ]

\* KalmanBoxTracker.__init__(bbox) when the class counter is cnt;
\* born is the identity of the constructed object (frame, detection index)
KalmanBoxTracker(bbox, cnt, born) ==
  [ kf |-> KalmanFilter(_bbox_to_z(bbox)),
    time_since_update |-> 0,
    id |-> cnt,
    hits |-> 0,
    hit_streak |-> 0,
    age |-> 0,
    born |-> born ]

\* mutation: the area velocity is used as it is
area_guard_Off(kf) == kf

\* if self.kf.x[6] + self.kf.x[2] <= 0: self.kf.x[6] = 0
area_guard(kf) ==
  IF LeqF(AddF(kf.x[7], kf.x[3]), Zero) THEN [ kf EXCEPT !.x[7] = Zero ] ELSE kf

\* mutation: the streak test reads time_since_update after the increment
predict_TestAfterIncrement(trk) ==
  [ trk EXCEPT !.kf = kf_predict(area_guard(trk.kf)),
               !.age = trk.age + 1,
               !.hit_streak = IF trk.time_since_update + 1 > 0 THEN 0 ELSE trk.hit_streak,
               !.time_since_update = trk.time_since_update + 1 ]

\* KalmanBoxTracker.predict
predict(trk) ==
  [ trk EXCEPT !.kf = kf_predict(area_guard(trk.kf)),
               !.age = trk.age + 1,
               !.hit_streak = IF trk.time_since_update > 0 THEN 0 ELSE trk.hit_streak,
               !.time_since_update = trk.time_since_update + 1 ]

\* mutation: a correction restarts the streak at 1
update_StreakRestart(trk, bbox) ==
  [ trk EXCEPT !.time_since_update = 0,
               !.hits = trk.hits + 1,
               !.hit_streak = 1,
               !.kf = kf_update(trk.kf, _bbox_to_z(bbox)) ]

\* mutation: a correction does not reset time_since_update
update_NoReset(trk, bbox) ==
  [ trk EXCEPT !.hits = trk.hits + 1,
               !.hit_streak = trk.hit_streak + 1,
               !.kf = kf_update(trk.kf, _bbox_to_z(bbox)) ]

\* KalmanBoxTracker.update(bbox)
update(trk, bbox) ==
  [ trk EXCEPT !.time_since_update = 0,
               !.hits = trk.hits + 1,
               !.hit_streak = trk.hit_streak + 1,
               !.kf = kf_update(trk.kf, _bbox_to_z(bbox)) ]

\* KalmanBoxTracker.get_state
get_state(trk) == _z_to_bbox(trk.kf.x)

\* ------------------------------------------------------------- Tracker._iou
\* << max(0, x2 - x1), max(0, y2 - y1), the width and the height of bbox1,
\*    the width and the height of bbox2 >>
Extents(bbox1, bbox2) ==
  << max(Zero, SubF(min(bbox1[3], bbox2[3]), max(bbox1[1], bbox2[1]))),
     max(Zero, SubF(min(bbox1[4], bbox2[4]), max(bbox1[2], bbox2[2]))),
     SubF(bbox1[3], bbox1[1]), SubF(bbox1[4], bbox1[2]),
     SubF(bbox2[3], bbox2[1]), SubF(bbox2[4], bbox2[2]) >>

\* mutation: the overlap extents are not clamped at 0
Extents_NoClamp(bbox1, bbox2) ==
  << SubF(min(bbox1[3], bbox2[3]), max(bbox1[1], bbox2[1])),
     SubF(min(bbox1[4], bbox2[4]), max(bbox1[2], bbox2[2])),
     SubF(bbox1[3], bbox1[1]), SubF(bbox1[4], bbox1[2]),
     SubF(bbox2[3], bbox2[1]), SubF(bbox2[4], bbox2[2]) >>

\* intersection / union, or 0.0 if union <= 0
Ratio(intersection, union) ==
  IF LeqF(union, Zero) THEN Zero ELSE DivF(intersection, union)

\* mutation: the overlap extents are not clamped at 0
_iou_NoClamp(bbox1, bbox2) ==
  CHOOSE iou \in
    { Ratio(a[1], SubF(AddF(a[2], a[3]), a[1])) :
        a \in { << MulF(e[1], e[2]), MulF(e[3], e[4]), MulF(e[5], e[6]) >> :
                  e \in { Extents_NoClamp(bbox1, bbox2) } } } : TRUE

\* _iou(bbox1, bbox2): a = << intersection, area1, area2 >>,
\* union = area1 + area2 - intersection
_iou(bbox1, bbox2) ==
  CHOOSE iou \in
    { Ratio(a[1], SubF(AddF(a[2], a[3]), a[1])) :
        a \in { << MulF(e[1], e[2]), MulF(e[3], e[4]), MulF(e[5], e[6]) >> :
                  e \in { Extents(bbox1, bbox2) } } } : TRUE

\* ------------------------------------- scipy.optimize.linear_sum_assignment
\* The solver of scipy (rectangular_lsap): for every row in turn a shortest
\* augmenting path to a free column is searched, with the dual variables u
\* (rows) and v (columns).  Index 0 stands for "none" (the solver's -1);
\* costs and dual variables are doubles and Infinity is the solver's INFINITY.
Infinity == Inf

\* v with position k replaced by e
SetAt(v, k, e) == [ v EXCEPT ![k] = e ]

RECURSIVE Fill(_, _)
Fill(n, e) == IF n = 0 THEN << >> ELSE Append(Fill(n - 1, e), e)

\* remaining[it] = nc - it - 1: the columns in decreasing order
RECURSIVE Countdown(_)
Countdown(n) == IF n = 0 THEN << >> ELSE << n >> \o Countdown(n - 1)

\* one pass of the loop over the remaining columns, from position it on, for
\* the row i; s carries path, shortestPathCosts, lowest and index;
\* r = minVal + cost[i * nc + j] - u[i] - v[j]
RECURSIVE ScanRemaining(_, _, _, _, _, _, _, _, _)
ScanRemaining(cost, u, v, row4col, i, minVal, remaining, it, s) ==
  IF it > Len(remaining) THEN s
  ELSE CHOOSE t \in
         { LET j == remaining[it]
               closer == LtF(r, s.shortestPathCosts[j])
               spc == IF closer THEN r ELSE s.shortestPathCosts[j]
               better == \/ LtF(spc, s.lowest)
                         \/ ( EqF(spc, s.lowest) /\ row4col[j] = 0 )
           IN  ScanRemaining(cost, u, v, row4col, i, minVal, remaining, it + 1,
                 [ path |-> IF closer THEN SetAt(s.path, j, i) ELSE s.path,
                   shortestPathCosts |-> SetAt(s.shortestPathCosts, j, spc),
                   lowest |-> IF better THEN spc ELSE s.lowest,
                   index |-> IF better THEN it ELSE s.index ]) :
             r \in { SubF(SubF(AddF(minVal, cost[i][remaining[it]]), u[i]),
                          v[remaining[it]]) } } : TRUE

\* the while loop of augmenting_path: the search has come to row i; SR and SC
\* are the rows and columns scanned so far.  sink = 0 is the solver's -1: no
\* column can be reached (minVal == INFINITY)
RECURSIVE FindSink(_, _, _, _, _, _, _, _, _, _, _)
FindSink(cost, u, v, row4col, i, minVal, remaining, SR, SC, path, shortestPathCosts) ==
  CHOOSE a \in
    { LET j == remaining[s.index]
          n == Len(remaining)
      IN  IF EqF(s.lowest, Infinity)
          THEN [ sink |-> 0, minVal |-> s.lowest, SR |-> SR \cup {i}, SC |-> SC,
                 path |-> s.path, shortestPathCosts |-> s.shortestPathCosts ]
          ELSE IF row4col[j] = 0
          THEN [ sink |-> j, minVal |-> s.lowest, SR |-> SR \cup {i}, SC |-> SC \cup {j},
                 path |-> s.path, shortestPathCosts |-> s.shortestPathCosts ]
          ELSE FindSink(cost, u, v, row4col, row4col[j], s.lowest,
                        SubSeq(SetAt(remaining, s.index, remaining[n]), 1, n - 1),
                        SR \cup {i}, SC \cup {j}, s.path, s.shortestPathCosts) :
        s \in { ScanRemaining(cost, u, v, row4col, i, minVal, remaining, 1,
                              [ path |-> path, shortestPathCosts |-> shortestPathCosts,
                                lowest |-> Infinity, index |-> 0 ]) } } : TRUE

\* augmenting_path(nc, cost, u, v, path, row4col, shortestPathCosts, i, ...)
augmenting_path(cost, nc, u, v, path, row4col, i) ==
  FindSink(cost, u, v, row4col, i, Zero, Countdown(nc), {}, {}, path,
           Fill(nc, Infinity))

\* u[i] += minVal - shortestPathCosts[col4row[i]] for the scanned rows but
\* curRow, u[curRow] += minVal
RECURSIVE UpdateU(_, _, _, _, _)
UpdateU(u, i, curRow, a, col4row) ==
  IF i > Len(u) THEN u
  ELSE UpdateU(IF i = curRow THEN SetAt(u, i, AddF(u[i], a.minVal))
               ELSE IF i \in a.SR
               THEN SetAt(u, i, AddF(u[i], SubF(a.minVal,
                                                a.shortestPathCosts[col4row[i]])))
               ELSE u,
               i + 1, curRow, a, col4row)

\* v[j] -= minVal - shortestPathCosts[j] for the scanned columns
RECURSIVE UpdateV(_, _, _)
UpdateV(v, j, a) ==
  IF j > Len(v) THEN v
  ELSE UpdateV(IF j \in a.SC
               THEN SetAt(v, j, SubF(v[j], SubF(a.minVal, a.shortestPathCosts[j])))
               ELSE v,
               j + 1, a)

\* the augmentation along the path that ends in column j
RECURSIVE Augment(_, _, _, _, _)
Augment(path, row4col, col4row, j, curRow) ==
  LET i == path[j]
      r4c == SetAt(row4col, j, i)
      c4r == SetAt(col4row, i, j)
  IN  IF i = curRow THEN [ row4col |-> r4c, col4row |-> c4r ]
      ELSE Augment(path, r4c, c4r, col4row[i], curRow)

\* one turn of the loop over the rows of solve: the path search from curRow,
\* the update of the dual variables and the augmentation, as
\* << u, v, path, [row4col, col4row] >>; << >> if the search found no sink
SolveRow(cost, nc, curRow, u, v, path, row4col, col4row) ==
  CHOOSE t \in { IF a.sink = 0 THEN << >>
                 ELSE << UpdateU(u, 1, curRow, a, col4row), UpdateV(v, 1, a), a.path,
                         Augment(a.path, row4col, col4row, a.sink, curRow) >> :
                   a \in { augmenting_path(cost, nc, u, v, path, row4col, curRow) } } : TRUE

\* for (curRow = 0; curRow < nr; curRow++) of solve; feasible is false when a
\* search found no sink (RECTANGULAR_LSAP_INFEASIBLE)
RECURSIVE SolveRows(_, _, _, _, _, _, _, _)
SolveRows(cost, nc, curRow, u, v, path, row4col, col4row) ==
  IF curRow > Len(cost) THEN [ feasible |-> TRUE, col4row |-> col4row ]
  ELSE CHOOSE r \in { IF t = << >> THEN [ feasible |-> FALSE, col4row |-> col4row ]
                      ELSE SolveRows(cost, nc, curRow + 1, t[1], t[2], t[3],
                                     t[4].row4col, t[4].col4row) :
                        t \in { SolveRow(cost, nc, curRow, u, v, path, row4col, col4row) } } : TRUE

\* the pairs << i, col4row[i] >> in row order
RECURSIVE RowPairs(_, _)
RowPairs(col4row, i) ==
  IF i > Len(col4row) THEN << >>
  ELSE << << i, col4row[i] >> >> \o RowPairs(col4row, i + 1)

\* the pairs << col4row[v], v >> in the order of col4row[v] (argsort), for a
\* matrix that was transposed; nr is the number of rows before
RECURSIVE ColumnPairs(_, _, _)
ColumnPairs(col4row, i, nr) ==
  IF i > nr THEN << >>
  ELSE LET hit == { k \in 1..Len(col4row) : col4row[k] = i }
       IN  (IF hit = {} THEN << >> ELSE << << i, CHOOSE k \in hit : TRUE >> >>)
             \o ColumnPairs(col4row, i + 1, nr)

\* the test of solve for entries that are NaN or -inf (RECTANGULAR_LSAP_INVALID)
IsInvalidCost(cost, nr, nc) ==
  \E i \in 1..nr, j \in 1..nc :
    IsNaN(cost[i][j]) \/ ( IsInf(cost[i][j]) /\ cost[i][j].neg )

\* solve(nr, nc, cost, maximize = false, a, b): a tall matrix is transposed
solve(cost, nr, nc) ==
  IF nr = 0 \/ nc = 0 THEN [ feasible |-> TRUE, pairs |-> << >> ]
  ELSE IF nc < nr
  THEN CHOOSE r \in
         { [ feasible |-> s.feasible,
             pairs |-> IF s.feasible THEN ColumnPairs(s.col4row, 1, nr) ELSE << >> ] :
             s \in { SolveRows(Transpose(cost, 1, nc), nr, 1, Fill(nc, Zero),
                               Fill(nr, Zero), Fill(nr, 0), Fill(nr, 0), Fill(nc, 0)) } } : TRUE
  ELSE CHOOSE r \in
         { [ feasible |-> s.feasible,
             pairs |-> IF s.feasible THEN RowPairs(s.col4row, 1) ELSE << >> ] :
             s \in { SolveRows(cost, nc, 1, Fill(nr, Zero), Fill(nc, Zero),
                               Fill(nc, 0), Fill(nc, 0), Fill(nr, 0)) } } : TRUE

\* row_ind, col_ind = linear_sum_assignment(cost) for an N x M matrix, as the
\* list of pairs << row, column >>; raised: the call raised ValueError ("matrix
\* contains invalid numeric entries" or "cost matrix is infeasible")
linear_sum_assignment(cost, N, M) ==
  IF IsInvalidCost(cost, N, M) THEN [ raised |-> TRUE, pairs |-> << >> ]
  ELSE CHOOSE r \in
         { [ raised |-> ~ s.feasible, pairs |-> s.pairs ] : s \in { solve(cost, N, M) } } : TRUE

\* --------------------------------- Tracker._associate_detections_to_tracks
\* indices are 1-based here (index k stands for the code's k - 1)

\* one row of iou_matrix: a detection against every predicted box
RECURSIVE IouRow(_, _)
IouRow(bbox, trackers) ==
  IF trackers = << >> THEN << >>
  ELSE << _iou(bbox, Head(trackers)) >> \o IouRow(bbox, Tail(trackers))

\* iou_matrix[d, t] = self._iou(det.bbox, trackers[t][:4])
RECURSIVE IouMatrix(_, _)
IouMatrix(dets, trackers) ==
  IF dets = << >> THEN << >>
  ELSE << IouRow(Head(dets).bbox, trackers) >> \o IouMatrix(Tail(dets), trackers)

\* one row of -iou_matrix
RECURSIVE NegRow(_)
NegRow(row) ==
  IF row = << >> THEN << >>
  ELSE << NegF(Head(row)) >> \o NegRow(Tail(row))

\* mutation: the IoU matrix is handed to the solver without the sign change
NegIou_NotNegated(iou_matrix) == iou_matrix

\* the argument -iou_matrix of linear_sum_assignment
RECURSIVE NegIou(_)
NegIou(iou_matrix) ==
  IF iou_matrix = << >> THEN << >>
  ELSE << NegRow(Head(iou_matrix)) >> \o NegIou(Tail(iou_matrix))

\* mutation: <= in place of <
BelowThreshold_Inclusive(iou, thr) == LeqF(iou, thr)

\* if iou_matrix[m[0], m[1]] < self.iou_threshold
BelowThreshold(iou, thr) == LtF(iou, thr)

\* mutation: the detections of rejected pairs are not pushed back
UnmatchedDetections_DropRejected(rejected, matched_indices, N) ==
  SelectSeq(Iota(N), LAMBDA d : \A k \in 1..Len(matched_indices) :
                                  matched_indices[k][1] # d)

\* unmatched_detections: the rejected pairs' detections, then every detection
\* the solver left out
UnmatchedDetections(rejected, matched_indices, N) ==
  Column(rejected, 1)
    \o SelectSeq(Iota(N), LAMBDA d : \A k \in 1..Len(matched_indices) :
                                       matched_indices[k][1] # d)

\* unmatched_trackers, likewise
UnmatchedTrackers(rejected, matched_indices, M) ==
  Column(rejected, 2)
    \o SelectSeq(Iota(M), LAMBDA t : \A k \in 1..Len(matched_indices) :
                                       matched_indices[k][2] # t)

\* what the call leaves when linear_sum_assignment raises: no result
AssociationRaised(iou_matrix) ==
  [ raised |-> TRUE,
    iou_matrix |-> iou_matrix,
    matched_indices |-> << >>,
    matches |-> << >>,
    unmatched_detections |-> << >>,
    unmatched_trackers |-> << >> ]

\* the loops after the assignment: the threshold filter and the search for
\* the indices the solver left out
FilterMatches(iou_matrix, matched_indices, N, M, thr) ==
  CHOOSE a \in
    { [ raised |-> FALSE,
        iou_matrix |-> iou_matrix,
        matched_indices |-> matched_indices,
        matches |-> SelectSeq(matched_indices,
                              LAMBDA m : ~ BelowThreshold(iou_matrix[m[1]][m[2]], thr)),
        unmatched_detections |-> UnmatchedDetections(rejected, matched_indices, N),
        unmatched_trackers |-> UnmatchedTrackers(rejected, matched_indices, M) ] :
        rejected \in
          { SelectSeq(matched_indices,
                      LAMBDA m : BelowThreshold(iou_matrix[m[1]][m[2]], thr)) } } : TRUE

_associate_detections_to_tracks(dets, trackers, thr) ==
  IF Len(trackers) = 0
  THEN [ raised |-> FALSE,
         iou_matrix |-> << >>,
         matched_indices |-> << >>,
         matches |-> << >>,
         unmatched_detections |-> Iota(Len(dets)),
         unmatched_trackers |-> << >> ]
  ELSE
    CHOOSE a \in
      { IF p[2].raised THEN AssociationRaised(p[1])
        ELSE FilterMatches(p[1], p[2].pairs, Len(dets), Len(trackers), thr) :
          p \in { << iou_matrix,
                     IF Min(Len(dets), Len(trackers)) > 0
                     THEN linear_sum_assignment(NegIou(iou_matrix), Len(dets), Len(trackers))
                     ELSE [ raised |-> FALSE, pairs |-> << >> ] >> :
                  iou_matrix \in { IouMatrix(dets, trackers) } } } : TRUE

\* ------------------------------------------------------------------- inputs
\* Detection records (detector.Detection): bbox, class_label, confidence
BoxA == Box(0, 0, 4, 4)
BoxC == Box(6, 0, 10, 4)

DetPool ==
  { [ bbox |-> BoxA, class_label |-> "car", confidence |-> Lit0_5 ],
    [ bbox |-> BoxC, class_label |-> "person", confidence |-> Lit0_85 ] }

\* the lists of at most n detections of a frame over a pool: a detector
\* reports an object at most once per frame
ListsOver(pool, n) ==
  { dets \in UNION { [1..k -> pool] : k \in 0..n } :
      \A i, j \in 1..Len(dets) : i # j => dets[i] # dets[j] }

DetLists == ListsOver(DetPool, MaxDets)

\* the configurations << max_age, min_hits >> a Tracker is constructed with
Configs == { << 0, 1 >>, << 1, 2 >>, << 1, 3 >> }
\* iou_threshold = 0.3, the default
IouThresholds == { Lit0_3 }

\* -------------------------------------------------------------------- state
VARIABLES
  max_age, min_hits, iou_threshold,  \* Tracker configuration
  trackers,        \* Tracker.trackers: the live KalmanBoxTracker objects
  frame_count,     \* Tracker.frame_count
  count,           \* KalmanBoxTracker.count, the class-level id counter
  detections,      \* argument of the latest update call
  trks,            \* predicted boxes handed to the association
  assoc,           \* result of the latest association
  before_prune,    \* Tracker.trackers when the latest pruning loop started
  ret,             \* list returned by the latest update call
  created,         \* ids given to the tracks this Tracker created, in order
  expired,         \* ids of tracks seen with time_since_update > max_age
  first_seen,      \* emitted ids in order of first appearance
  seen,            \* <<id, born>> of every Track record emitted so far
  after_predict,   \* Tracker.trackers when the latest association started
  same_feed,       \* every update call so far was given the list in detections
  empty_run,       \* number of latest consecutive update calls given no detection
  emits,           \* id -> number of update calls that emitted a record with it
  call_args,       \* arguments of the latest call of a function on its own
  call_out,        \* what that call returned
  last_call        \* the operation that produced this state

vars == << max_age, min_hits, iou_threshold, trackers, frame_count, count,
           detections, trks, assoc, before_prune, ret, created, expired,
           first_seen, seen, after_predict, same_feed, empty_run, emits,
           call_args, call_out, last_call >>

NoAssoc == [ raised |-> FALSE, iou_matrix |-> << >>,
             matched_indices |-> << >>, matches |-> << >>,
             unmatched_detections |-> << >>, unmatched_trackers |-> << >> ]

\* ------------------------------------------------------------ Tracker.update
\* masked_invalid masks NaN and infinite entries
IsInvalidRow(pos) == \E k \in 1..4 : IsNaN(pos[k]) \/ IsInf(pos[k])

\* mutation: only the oldest track is predicted
PredictAll_HeadOnly(lst) ==
  IF lst = << >> THEN << >> ELSE << predict(Head(lst)) >> \o Tail(lst)

\* for t, trk in enumerate(self.trackers): pos = trk.predict()
RECURSIVE PredictAll(_)
PredictAll(lst) ==
  IF lst = << >> THEN << >> ELSE << predict(Head(lst)) >> \o PredictAll(Tail(lst))

\* trks[t] = [pos[0], pos[1], pos[2], pos[3], 0]
RECURSIVE Positions(_)
Positions(lst) ==
  IF lst = << >> THEN << >> ELSE << _z_to_bbox(Head(lst).kf.x) >> \o Positions(Tail(lst))

\* to_del holds the rows with a NaN; for t in reversed(to_del): self.trackers.pop(t)
RECURSIVE RemoveNaN(_, _)
RemoveNaN(lst, pos) ==
  IF lst = << >> THEN << >>
  ELSE LET n == Len(lst)
           front == RemoveNaN(SubSeq(lst, 1, n - 1), SubSeq(pos, 1, n - 1))
       IN  IF \E k \in 1..4 : IsNaN(pos[n][k]) THEN front ELSE Append(front, lst[n])

\* np.ma.compress_rows(np.ma.masked_invalid(trks))
compress_rows(pos) ==
  LET Finite(row) == ~ IsInvalidRow(row)
  IN  SelectSeq(pos, Finite)

\* mutation: a correction is counted twice
RECURSIVE UpdateMatched_Twice(_, _, _)
UpdateMatched_Twice(lst, matches, dets) ==
  IF matches = << >> THEN lst
  ELSE LET m == Head(matches)
       IN  UpdateMatched_Twice(
             [ lst EXCEPT ![m[2]] = update(update(lst[m[2]], dets[m[1]].bbox),
                                           dets[m[1]].bbox) ],
             Tail(matches), dets)

\* for m in matched: self.trackers[trk_idx].update(detections[det_idx].bbox)
RECURSIVE UpdateMatched(_, _, _)
UpdateMatched(lst, matches, dets) ==
  IF matches = << >> THEN lst
  ELSE LET m == Head(matches)
       IN  UpdateMatched([ lst EXCEPT ![m[2]] = update(lst[m[2]], dets[m[1]].bbox) ],
                         Tail(matches), dets)

\* mutation: the counter is not advanced between two creations of one frame
RECURSIVE CreateNew_NoIncrement(_, _, _, _, _)
CreateNew_NoIncrement(lst, unmatched_dets, dets, cnt, fc) ==
  IF unmatched_dets = << >> THEN lst
  ELSE LET i == Head(unmatched_dets)
       IN  CreateNew_NoIncrement(
             Append(lst, [ kf |-> KalmanFilter(_bbox_to_z(dets[i].bbox)), time_since_update |-> 0,
                           id |-> cnt, hits |-> 0, hit_streak |-> 0, age |-> 0,
                           born |-> << fc, i >> ]),
             Tail(unmatched_dets), dets, cnt, fc)

\* for i in unmatched_dets: self.trackers.append(KalmanBoxTracker(...))
RECURSIVE CreateNew(_, _, _, _, _)
CreateNew(lst, unmatched_dets, dets, cnt, fc) ==
  IF unmatched_dets = << >> THEN lst
  ELSE LET i == Head(unmatched_dets)
       IN  CreateNew(Append(lst, KalmanBoxTracker(dets[i].bbox, cnt, << fc, i >>)),
                     Tail(unmatched_dets), dets, cnt + 1, fc)

\* mutation: the index adjustment for the reversed iteration is left out
MatchOf_Unadjusted(matches, i) ==
  LET hit == { k \in 1..Len(matches) : matches[k][2] = i + 1 }
  IN  IF hit = {} THEN 0
      ELSE matches[CHOOSE k \in hit : \A j \in hit : k <= j][1]

\* for m in matched: if i - 1 == int(m[1]): det = detections[int(m[0])]; 0: none
\* the Track record built for tracker trk standing at list index i
MatchOf(matches, i) ==
  LET hit == { k \in 1..Len(matches) : matches[k][2] = i }
  IN  IF hit = {} THEN 0
      ELSE matches[CHOOSE k \in hit : \A j \in hit : k <= j][1]

\* if len(track.history) > 30: track.history = track.history[-30:]
HistoryLimit == 30
Trim(h) == IF Len(h) > HistoryLimit THEN SubSeq(h, Len(h) - HistoryLimit + 1, Len(h)) ELSE h

\* center_x = (bbox[0] + bbox[2]) / 2, center_y = (bbox[1] + bbox[3]) / 2
Centre(bbox) == << HalfF(AddF(bbox[1], bbox[3])), HalfF(AddF(bbox[2], bbox[4])) >>

\* Track(...) is built with history = None, which __post_init__ turns into [],
\* then the centre of the box is appended and the list is trimmed
Track(trk, i, matches, dets) ==
  CHOOSE track \in
    { [ id |-> trk.id,
        bbox |-> bbox,
        history |-> Trim(Append(<< >>, Centre(bbox))),
        class_label |-> IF d = 0 THEN "unknown" ELSE dets[d].class_label,
        confidence |-> IF d = 0 THEN Zero ELSE dets[d].confidence,
        age |-> trk.age,
        hits |-> trk.hits,
        time_since_update |-> trk.time_since_update,
        velocity |-> << trk.kf.x[5], trk.kf.x[6] >>,
        born |-> trk.born ] :
        << bbox, d >> \in { << get_state(trk), MatchOf(matches, i) >> } } : TRUE

\* mutation: the grace condition tests the track's age
Emitted_ByAge(trk, fc, mh) == trk.hit_streak >= mh \/ trk.age <= mh

\* if (trk.hit_streak >= self.min_hits) or (self.frame_count <= self.min_hits)
Emitted(trk, fc, mh) == trk.hit_streak >= mh \/ fc <= mh

\* mutation: a track is given one frame more than max_age
IsDead_OneMore(trk, ma) == trk.time_since_update > ma + 1

\* if trk.time_since_update > self.max_age
IsDead(trk, ma) == trk.time_since_update > ma

\* for trk in reversed(self.trackers): ...  with i the code's counter; the
\* reverse iterator stops when its index is no longer inside the list
RECURSIVE PruneLoop(_, _, _, _, _, _, _, _)
PruneLoop(lst, i, out, matches, dets, fc, ma, mh) ==
  IF i = 0 \/ i > Len(lst) THEN [ trackers |-> lst, ret |-> out ]
  ELSE LET trk == lst[i]
       IN  IF IsDead(trk, ma)
           THEN PruneLoop(SubSeq(lst, 1, Len(lst) - 1), i - 1, out,
                          matches, dets, fc, ma, mh)
           ELSE IF Emitted(trk, fc, mh)
           THEN PruneLoop(lst, i - 1, Append(out, Track(trk, i, matches, dets)),
                          matches, dets, fc, ma, mh)
           ELSE PruneLoop(lst, i - 1, out, matches, dets, fc, ma, mh)

RECURSIVE IdsOf(_)
IdsOf(lst) == IF lst = << >> THEN << >> ELSE << Head(lst).id >> \o IdsOf(Tail(lst))

RECURSIVE FirstSeen(_, _)
FirstSeen(fs, out) ==
  IF out = << >> THEN fs
  ELSE FirstSeen(IF Head(out).id \in Range(fs) THEN fs ELSE Append(fs, Head(out).id),
                 Tail(out))

RECURSIVE Zeros(_)
Zeros(n) == IF n = 0 THEN << >> ELSE Append(Zeros(n - 1), 0)

\* emits with one more emission for every record of out; ids are 0, 1, ...
\* and emits[id + 1] is the count of id
RECURSIVE CountEmits(_, _)
CountEmits(em, out) ==
  IF out = << >> THEN em
  ELSE LET id == Head(out).id
           wide == em \o Zeros(IF id + 1 > Len(em) THEN id + 1 - Len(em) ELSE 0)
       IN  CountEmits([ wide EXCEPT ![id + 1] = wide[id + 1] + 1 ], Tail(out))

Init ==
  /\ \E c \in Configs : max_age = c[1] /\ min_hits = c[2]
  /\ iou_threshold \in IouThresholds
  /\ trackers = << >>
  /\ frame_count = 0
  /\ count = 0
  /\ detections = << >>
  /\ trks = << >>
  /\ assoc = NoAssoc
  /\ before_prune = << >>
  /\ ret = << >>
  /\ created = << >>
  /\ expired = {}
  /\ first_seen = << >>
  /\ seen = {}
  /\ after_predict = << >>
  /\ same_feed = TRUE
  /\ empty_run = 0
  /\ emits = << >>
  /\ call_args = << >>
  /\ call_out = << >>
  /\ last_call = "init"

\* Tracker.update(dets): everything the call computes, in program order.
\* When the association raises, the call ends there: the tracks stay as the
\* prediction left them and nothing is returned
update_call(dets) ==
  CHOOSE res \in
    { [ frame_count |-> frame_count + 1,
        raised |-> e.a.raised,
        trks |-> e.rows,
        assoc |-> e.a,
        count |-> count + Len(e.a.unmatched_detections),
        new_ids |-> IdsOf(SubSeq(e.grown, Len(e.corrected) + 1, Len(e.grown))),
        after_predict |-> e.live,
        before_prune |-> e.grown,
        trackers |-> e.r.trackers,
        ret |-> e.r.ret ] :
      e \in { [ r |-> IF d.a.raised THEN [ trackers |-> d.grown, ret |-> << >> ]
                      ELSE PruneLoop(d.grown, Len(d.grown), << >>, d.a.matches, dets,
                                     frame_count + 1, max_age, min_hits) ] @@ d :
        d \in { [ grown |-> CreateNew(c.corrected, c.a.unmatched_detections, dets,
                                      count, frame_count + 1) ] @@ c :
          c \in { [ corrected |-> UpdateMatched(b.live, b.a.matches, dets) ] @@ b :
            b \in { [ a |-> _associate_detections_to_tracks(dets, p.rows,
                                                            iou_threshold) ] @@ p :
              p \in { [ rows |-> compress_rows(q.pos),
                        live |-> RemoveNaN(q.predicted, q.pos) ] :
                q \in { [ predicted |-> t, pos |-> Positions(t) ] :
                  t \in { PredictAll(trackers) } } } } } } } } : TRUE

Update(dets) ==
  /\ frame_count < MaxFrames
  /\ \E c \in { update_call(dets) } :
       /\ frame_count' = c.frame_count
       /\ detections' = dets
       /\ trks' = c.trks
       /\ assoc' = c.assoc
       /\ count' = c.count
       /\ before_prune' = c.before_prune
       /\ trackers' = c.trackers
       /\ ret' = c.ret
       /\ created' = created \o c.new_ids
       /\ expired' = expired \cup
            { c.before_prune[k].id :
                k \in { j \in 1..Len(c.before_prune) :
                          ~ c.raised /\ c.before_prune[j].time_since_update > max_age } }
       /\ first_seen' = FirstSeen(first_seen, c.ret)
       /\ seen' = seen \cup { << c.ret[k].id, c.ret[k].born >> : k \in 1..Len(c.ret) }
       /\ after_predict' = c.after_predict
       /\ emits' = CountEmits(emits, c.ret)
       /\ last_call' = IF c.raised THEN "update raised" ELSE "update"
  /\ same_feed' = (same_feed /\ (frame_count = 0 \/ dets = detections))
  /\ empty_run' = IF dets = << >> THEN empty_run + 1 ELSE 0
  /\ UNCHANGED << max_age, min_hits, iou_threshold, call_args, call_out >>

Next == \E dets \in DetLists : Update(dets)

Spec == Init /\ [][Next]_vars

\* ------------------------------------------- detections with an enormous box
\* [0, 8, 1e170, 9]: a box whose area and aspect ratio are finite but whose
\* s * r is not
BoxHuge == << float(0), float(8), E170, float(9) >>

HugePool ==
  { [ bbox |-> BoxA, class_label |-> "car", confidence |-> Lit0_5 ],
    [ bbox |-> BoxHuge, class_label |-> "truck", confidence |-> Lit0_7 ] }

HugeLists == ListsOver(HugePool, MaxDets)

NextHuge == \E dets \in HugeLists : Update(dets)

SpecHuge == Init /\ [][NextHuge]_vars

\* ------------------------------------- construction with arbitrary arguments
\* Tracker.__init__(max_age, min_hits, iou_threshold): the arguments are stored
\* as they are; no branch of the constructor raises
Tracker__init__(ma, mh, thr) ==
  [ max_age |-> ma, min_hits |-> mh, iou_threshold |-> thr,
    trackers |-> << >>, frame_count |-> 0 ]

\* constructor arguments << max_age, min_hits, iou_threshold >>
CtorArgs ==
  { << 0 - 1, 1, Lit0_3 >>,
    << 1, 0 - 1, Lit0_3 >>,
    << 1, 3, Lit1_5 >>,
    << 1, 3, Lit0_3 >> }

InitAnyConfig ==
  /\ \E a \in CtorArgs :
       LET t == Tracker__init__(a[1], a[2], a[3])
       IN  /\ max_age = t.max_age
           /\ min_hits = t.min_hits
           /\ iou_threshold = t.iou_threshold
           /\ trackers = t.trackers
           /\ frame_count = t.frame_count
  /\ count = 0
  /\ detections = << >>
  /\ trks = << >>
  /\ assoc = NoAssoc
  /\ before_prune = << >>
  /\ ret = << >>
  /\ created = << >>
  /\ expired = {}
  /\ first_seen = << >>
  /\ seen = {}
  /\ after_predict = << >>
  /\ same_feed = TRUE
  /\ empty_run = 0
  /\ emits = << >>
  /\ call_args = << >>
  /\ call_out = << >>
  /\ last_call = "init"

SpecAnyConfig == InitAnyConfig /\ [][Next]_vars

\* ------------------------------- other users of the class-level id counter
MaxExternal == 1

\* KalmanBoxTracker(bbox) constructed outside this Tracker (by another Tracker
\* of the process, or directly): self.id = KalmanBoxTracker.count;
\* KalmanBoxTracker.count += 1
ExternalCreate ==
  /\ count - Len(created) < MaxExternal
  /\ count' = count + 1
  /\ last_call' = "external"
  /\ UNCHANGED << max_age, min_hits, iou_threshold, trackers, frame_count,
                  detections, trks, assoc, before_prune, ret, created, expired,
                  first_seen, seen, after_predict, same_feed, empty_run, emits,
                  call_args, call_out >>

\* frames with at most one detection
SingleLists == { dets \in DetLists : Len(dets) <= 1 }

NextShared ==
  \/ \E dets \in SingleLists : Update(dets)
  \/ ExternalCreate

SpecShared == Init /\ [][NextShared]_vars

\* ------------------------------------------------- one slowly moving object
\* a 100 x 100 box that moves by at most 5 px per axis from one frame to the next
BoxStart == Box(100, 100, 200, 200)
Shifts == { 0 - 5, 0, 5 }

Shifted(bbox, dx, dy) ==
  << AddF(bbox[1], float(dx)), AddF(bbox[2], float(dy)),
     AddF(bbox[3], float(dx)), AddF(bbox[4], float(dy)) >>

\* tracker.update([Detection(BoxStart, "person", 0.9)]) on the first frame
Appear ==
  /\ frame_count = 0
  /\ \E dets \in { << [ bbox |-> BoxStart, class_label |-> "person", confidence |-> Lit0_9 ] >> } :
       Update(dets)

\* tracker.update([det]) with the box of the previous frame moved by (dx, dy)
Move(dx, dy) ==
  /\ frame_count >= 1
  /\ \E dets \in { << [ bbox |-> Shifted(detections[1].bbox, dx, dy),
                        class_label |-> "person", confidence |-> Lit0_9 ] >> } :
       Update(dets)

NextMotion ==
  \/ Appear
  \/ \E dx \in Shifts, dy \in Shifts : Move(dx, dy)

SpecMotion == Init /\ [][NextMotion]_vars

\* ------------------------------ the association step called on its own
MaxAssoc == 2

\* boxes whose pairwise IoUs are 0, 1/4, 3/8, 1/2, 3/4 and 1
AssocBoxes == { Box(0, 0, 8, 4), Box(2, 0, 8, 4), Box(0, 0, 4, 4), Box(5, 0, 8, 4) }
AssocDets == { [ bbox |-> b, class_label |-> "person", confidence |-> Lit0_9 ] : b \in AssocBoxes }
AssocThresholds == { Lit0_3, Lit0_5 }

InitAssoc ==
  /\ max_age \in {1}
  /\ min_hits \in {3}
  /\ iou_threshold \in AssocThresholds
  /\ trackers = << >>
  /\ frame_count = 0
  /\ count = 0
  /\ detections \in ListsOver(AssocDets, MaxAssoc)
  /\ trks \in UNION { [1..n -> AssocBoxes] : n \in 0..MaxAssoc }
  /\ assoc = NoAssoc
  /\ before_prune = << >>
  /\ ret = << >>
  /\ created = << >>
  /\ expired = {}
  /\ first_seen = << >>
  /\ seen = {}
  /\ after_predict = << >>
  /\ same_feed = TRUE
  /\ empty_run = 0
  /\ emits = << >>
  /\ call_args = << >>
  /\ call_out = << >>
  /\ last_call = "init"

\* self._associate_detections_to_tracks(detections, trks)
Associate ==
  /\ last_call = "init"
  /\ assoc' = _associate_detections_to_tracks(detections, trks, iou_threshold)
  /\ last_call' = "associate"
  /\ UNCHANGED << max_age, min_hits, iou_threshold, trackers, frame_count, count,
                  detections, trks, before_prune, ret, created, expired,
                  first_seen, seen, after_predict, same_feed, empty_run, emits,
                  call_args, call_out >>

NextAssoc == Associate

SpecAssoc == InitAssoc /\ [][NextAssoc]_vars

\* ---------------------------------------------- Tracker._iou called on its own
MaxCoord == 2

\* boxes [x1, y1, x2, y2] with x1 <= x2 and y1 <= y2 (empty boxes included)
\* and corners at 0..n
BoxesUpTo(n) ==
  { Box(b[1], b[2], b[3], b[4]) :
      b \in { c \in (0..n) \X (0..n) \X (0..n) \X (0..n) : c[1] <= c[3] /\ c[2] <= c[4] } }

IouBoxes == BoxesUpTo(MaxCoord)

InitIou ==
  /\ max_age \in {1}
  /\ min_hits \in {3}
  /\ iou_threshold \in IouThresholds
  /\ trackers = << >>
  /\ frame_count = 0
  /\ count = 0
  /\ detections = << >>
  /\ trks = << >>
  /\ assoc = NoAssoc
  /\ before_prune = << >>
  /\ ret = << >>
  /\ created = << >>
  /\ expired = {}
  /\ first_seen = << >>
  /\ seen = {}
  /\ after_predict = << >>
  /\ same_feed = TRUE
  /\ empty_run = 0
  /\ emits = << >>
  /\ call_args \in IouBoxes \X IouBoxes
  /\ call_out = << >>
  /\ last_call = "init"

\* Tracker._iou(bbox1, bbox2) and Tracker._iou(bbox2, bbox1)
IouCall ==
  /\ last_call = "init"
  /\ call_out' = << _iou(call_args[1], call_args[2]), _iou(call_args[2], call_args[1]) >>
  /\ last_call' = "_iou"
  /\ UNCHANGED << max_age, min_hits, iou_threshold, trackers, frame_count, count,
                  detections, trks, assoc, before_prune, ret, created, expired,
                  first_seen, seen, after_predict, same_feed, empty_run, emits,
                  call_args >>

NextIou == IouCall

SpecIou == InitIou /\ [][NextIou]_vars

\* ------------------------------ the geometry conversions called on their own
MaxSide == 3

\* boxes with corners at 0..MaxSide and one box that is 1e170 pixels wide
GeomBoxes == BoxesUpTo(MaxSide) \cup { BoxHuge }

InitGeom ==
  /\ max_age \in {1}
  /\ min_hits \in {3}
  /\ iou_threshold \in IouThresholds
  /\ trackers = << >>
  /\ frame_count = 0
  /\ count = 0
  /\ detections = << >>
  /\ trks = << >>
  /\ assoc = NoAssoc
  /\ before_prune = << >>
  /\ ret = << >>
  /\ created = << >>
  /\ expired = {}
  /\ first_seen = << >>
  /\ seen = {}
  /\ after_predict = << >>
  /\ same_feed = TRUE
  /\ empty_run = 0
  /\ emits = << >>
  /\ call_args \in GeomBoxes
  /\ call_out = << >>
  /\ last_call = "init"

\* z = self._bbox_to_z(bbox); self._z_to_bbox(z)
GeomCall ==
  /\ last_call = "init"
  /\ call_out' = << _bbox_to_z(call_args), _z_to_bbox(_bbox_to_z(call_args)) >>
  /\ last_call' = "_z_to_bbox"
  /\ UNCHANGED << max_age, min_hits, iou_threshold, trackers, frame_count, count,
                  detections, trks, assoc, before_prune, ret, created, expired,
                  first_seen, seen, after_predict, same_feed, empty_run, emits,
                  call_args >>

NextGeom == GeomCall

SpecGeom == InitGeom /\ [][NextGeom]_vars

\* ------------------------------- one KalmanBoxTracker object used on its own
\* (as in TestKalmanBoxTracker: the object is constructed, then predict and
\* update are called on it)
MaxAge == 3
MaxHits == 2

\* two square boxes and one that is four times as wide as it is high
TrackBoxes == { Box(0, 0, 4, 4), Box(0, 0, 8, 8), Box(0, 0, 8, 2) }

\* tracker = KalmanBoxTracker(bbox)
InitTrack ==
  /\ max_age \in {1}
  /\ min_hits \in {3}
  /\ iou_threshold \in IouThresholds
  /\ \E b \in TrackBoxes : trackers = << KalmanBoxTracker(b, 0, << 0, 1 >>) >>
  /\ frame_count = 0
  /\ count = 1
  /\ detections = << >>
  /\ trks = << >>
  /\ assoc = NoAssoc
  /\ before_prune = << >>
  /\ ret = << >>
  /\ created = << 0 >>
  /\ expired = {}
  /\ first_seen = << >>
  /\ seen = {}
  /\ after_predict = << >>
  /\ same_feed = TRUE
  /\ empty_run = 0
  /\ emits = << >>
  /\ call_args = << >>
  /\ call_out = << >>
  /\ last_call = "init"

\* tracker.predict(); call_args is << kf.x[2], kf.x[6] >> on entry, call_out
\* the box the call returns
TrackPredict ==
  /\ trackers[1].age < MaxAge
  /\ \E trk \in { predict(trackers[1]) } :
       /\ trackers' = << trk >>
       /\ call_out' = _z_to_bbox(trk.kf.x)
  /\ call_args' = << trackers[1].kf.x[3], trackers[1].kf.x[7] >>
  /\ last_call' = "predict"
  /\ UNCHANGED << max_age, min_hits, iou_threshold, frame_count, count,
                  detections, trks, assoc, before_prune, ret, created, expired,
                  first_seen, seen, after_predict, same_feed, empty_run, emits >>

\* tracker.update(bbox)
TrackCorrect(bbox) ==
  /\ trackers[1].hits < MaxHits
  /\ trackers' = << update(trackers[1], bbox) >>
  /\ call_args' = bbox
  /\ last_call' = "correct"
  /\ UNCHANGED << max_age, min_hits, iou_threshold, frame_count, count,
                  detections, trks, assoc, before_prune, ret, created, expired,
                  first_seen, seen, after_predict, same_feed, empty_run, emits,
                  call_out >>

NextTrack ==
  \/ TrackPredict
  \/ \E b \in TrackBoxes : TrackCorrect(b)

SpecTrack == InitTrack /\ [][NextTrack]_vars

\* =================================================================== claims
LiveIds == { trackers[k].id : k \in 1..Len(trackers) }
RetIds == { ret[k].id : k \in 1..Len(ret) }
Occ(seq, v) == Cardinality({ k \in 1..Len(seq) : seq[k] = v })

\* two boxes with equal coordinates
SameBox(a, b) == \A k \in 1..4 : EqF(a[k], b[k])

\* |a|
AbsF(a) == [ a EXCEPT !.neg = FALSE ]

\* the doubles nearest to 1e-6 and 0.1
Lit1e_6 == [ cls |-> "fin", neg |-> FALSE, exp |-> 0 - 72, man |-> << 11661, 727, 12154, 1073 >> ]
Lit0_1 == [ cls |-> "fin", neg |-> FALSE, exp |-> 0 - 56, man |-> << 6554, 9830, 6553, 1638 >> ]

\* C1: every track this Tracker creates gets an id strictly greater than the
\* ids of all tracks created before it, so no id is ever assigned twice, also
\* after its track was deleted.
C1_IdsStrictlyIncreasing ==
  /\ \A i, j \in 1..Len(created) : i < j => created[i] < created[j]
  /\ \A i \in 1..Len(created) : created[i] < count
  /\ LiveIds \subseteq Range(created)

\* a track is created after an earlier one was deleted
C1_Witness ==
  /\ Len(created) >= 3
  /\ \E i \in 1..Len(created) :
       created[i] \notin LiveIds /\ created[i] < created[Len(created)]
  /\ created[Len(created)] \in LiveIds

\* C2: after update returns no live track has time_since_update > max_age.
C2_NoStaleTrackAfterUpdate ==
  \A k \in 1..Len(trackers) : trackers[k].time_since_update <= max_age

\* C3: pruning removes only tracks whose time_since_update exceeds max_age:
\* every track that stood in the collection with time_since_update <= max_age
\* when pruning began is in the live collection when update returns.
C3_PruneKeepsFreshTracks ==
  last_call = "update" =>
    \A k \in 1..Len(before_prune) :
      before_prune[k].time_since_update <= max_age =>
        \E j \in 1..Len(trackers) : trackers[j] = before_prune[k]

\* the ids of the tracks the latest update corrected with a detection
CorrectedIds ==
  { before_prune[assoc.matches[k][2]].id : k \in 1..Len(assoc.matches) }

\* C4: once a track has exceeded max_age frames without a match, no later
\* update corrects it with a detection or emits a record carrying its id.
C4_DeletionIsFinal ==
  [][ last_call' = "update" =>
        \A id \in expired : id \notin CorrectedIds' /\ id \notin RetIds' ]_vars

\* C5: a track with time_since_update <= max_age at pruning is emitted iff
\* hit_streak >= min_hits or frame_count <= min_hits.
C5_EmissionRule ==
  last_call = "update" =>
    \A k \in 1..Len(before_prune) :
      before_prune[k].time_since_update <= max_age =>
        ( before_prune[k].id \in RetIds
            <=> ( before_prune[k].hit_streak >= min_hits \/ frame_count <= min_hits ) )

\* past the grace period: one track emitted on its streak, one young
\* surviving track held back
C5_Witness ==
  /\ last_call = "update"
  /\ frame_count > min_hits
  /\ \E k \in 1..Len(before_prune) :
       /\ before_prune[k].hit_streak >= min_hits
       /\ before_prune[k].id \in RetIds
  /\ \E k \in 1..Len(before_prune) :
       /\ before_prune[k].time_since_update <= max_age
       /\ before_prune[k].age <= min_hits
       /\ before_prune[k].hit_streak < min_hits
       /\ before_prune[k].id \notin RetIds

\* two distinct tracker objects never share an emitted id
EmittedIdsUnique == \A p, q \in seen : p[1] = q[1] => p[2] = q[2]

\* C6 as stated: emitted ids are non-decreasing in order of first appearance
\* (frame by frame, within a frame in list order) and unique per track.
C6_FirstAppearanceNonDecreasing ==
  /\ \A i, j \in 1..Len(first_seen) : i < j => first_seen[i] <= first_seen[j]
  /\ EmittedIdsUnique

\* C6 amended: emitted ids are unique per track, and within one returned list
\* the ids are strictly decreasing (newest track first).
C6_UniqueAndNewestFirst ==
  /\ EmittedIdsUnique
  /\ \A i, j \in 1..Len(ret) : i < j => ret[i].id > ret[j].id

\* a later call returns two records, the newer track first
C6_Witness ==
  /\ Cardinality(seen) >= 2
  /\ Len(ret) >= 2
  /\ frame_count >= 2
  /\ ret[1].id > ret[2].id

\* the one-to-one pairings of min(N, M) (detection, tracker) pairs
Pairings(N, M) ==
  IF N <= M
  THEN { { << d, f[d] >> : d \in 1..N } :
           f \in { g \in [1..N -> 1..M] : \A a, b \in 1..N : a # b => g[a] # g[b] } }
  ELSE { { << f[t], t >> : t \in 1..M } :
           f \in { g \in [1..M -> 1..N] : \A a, b \in 1..M : a # b => g[a] # g[b] } }

\* the IoU of detection m[1] and tracker box m[2] in the latest association
PairIou(m) == assoc.iou_matrix[m[1]][m[2]]

\* the total IoU of a pairing (the IoUs under SpecAssoc are multiples of 1/8,
\* so no sum is rounded)
RECURSIVE TotalIou(_)
TotalIou(S) ==
  IF S = {} THEN Zero
  ELSE LET p == CHOOSE q \in S : TRUE
       IN  AddF(PairIou(p), TotalIou(S \ {p}))

\* C7: the outputs of the association partition the inputs: every detection
\* index is in exactly one confirmed match or exactly once among the
\* unmatched detections, every tracker index likewise; with no tracker boxes
\* all detections are unmatched and nothing else is reported.
C7_Partition ==
  last_call = "associate" =>
    LET N == Len(detections)
        M == Len(trks)
    IN  /\ \A d \in 1..N :
             Occ(Column(assoc.matches, 1), d) + Occ(assoc.unmatched_detections, d) = 1
        /\ \A t \in 1..M :
             Occ(Column(assoc.matches, 2), t) + Occ(assoc.unmatched_trackers, t) = 1
        /\ Range(Column(assoc.matches, 1)) \cup Range(assoc.unmatched_detections) \subseteq 1..N
        /\ Range(Column(assoc.matches, 2)) \cup Range(assoc.unmatched_trackers) \subseteq 1..M
        /\ M = 0 => /\ assoc.matches = << >>
                    /\ assoc.unmatched_trackers = << >>
                    /\ assoc.unmatched_detections = Iota(N)

\* two detections, two boxes: one pair confirmed, the other pair rejected
C7_Witness ==
  /\ last_call = "associate"
  /\ Len(detections) = 2 /\ Len(trks) = 2
  /\ Len(assoc.matches) = 1
  /\ Len(assoc.unmatched_detections) = 1
  /\ Len(assoc.unmatched_trackers) = 1

\* C8: every confirmed match has IoU >= iou_threshold (equality included);
\* every pair chosen by the solver with IoU < iou_threshold is rejected and
\* both its detection and its tracker are reported unmatched.
C8_ThresholdFilter ==
  last_call = "associate" =>
    /\ \A k \in 1..Len(assoc.matches) :
         /\ LeqF(iou_threshold, PairIou(assoc.matches[k]))
         /\ assoc.matches[k] \in Range(assoc.matched_indices)
    /\ \A k \in 1..Len(assoc.matched_indices) :
         LET m == assoc.matched_indices[k]
         IN  IF LtF(PairIou(m), iou_threshold)
             THEN /\ m \notin Range(assoc.matches)
                  /\ m[1] \in Range(assoc.unmatched_detections)
                  /\ m[2] \in Range(assoc.unmatched_trackers)
             ELSE m \in Range(assoc.matches)

\* a confirmed match with IoU equal to the threshold next to a rejected pair
\* of positive IoU
C8_Witness ==
  /\ last_call = "associate"
  /\ \E k \in 1..Len(assoc.matches) :
       /\ EqF(PairIou(assoc.matches[k]), iou_threshold)
       /\ PairIou(assoc.matches[k])
            = _iou(detections[assoc.matches[k][1]].bbox, trks[assoc.matches[k][2]])
  /\ \E k \in 1..Len(assoc.matched_indices) :
       /\ GtF(PairIou(assoc.matched_indices[k]), Zero)
       /\ LtF(PairIou(assoc.matched_indices[k]), iou_threshold)

\* C9: with at least one detection and one tracker box the candidate pairing
\* is a one-to-one pairing of min(N, M) pairs whose total IoU is maximal
\* among all such pairings.
C9_OptimalAssignment ==
  ( last_call = "associate" /\ Len(detections) >= 1 /\ Len(trks) >= 1 ) =>
    LET N == Len(detections)
        M == Len(trks)
        S == Range(assoc.matched_indices)
    IN  /\ Len(assoc.matched_indices) = Min(N, M)
        /\ S \in Pairings(N, M)
        /\ \A T \in Pairings(N, M) :
             LeqF(TotalIou(T), TotalIou(S))

\* the pair of largest IoU is left out of the candidate pairing: best-first
\* matching would have chosen differently
C9_Witness ==
  /\ last_call = "associate"
  /\ Len(detections) = 2 /\ Len(trks) = 2
  /\ \E d \in 1..2, t \in 1..2 :
       /\ << d, t >> \notin Range(assoc.matched_indices)
       /\ \A k \in 1..Len(assoc.matched_indices) :
            LtF(PairIou(assoc.matched_indices[k]), PairIou(<< d, t >>))

\* the detections matched in the latest update to the track with this id
MatchedDets(id) ==
  { assoc.matches[k][1] :
      k \in { j \in 1..Len(assoc.matches) : before_prune[assoc.matches[j][2]].id = id } }

\* C10: an emitted record of a track matched in this frame carries that
\* detection's class_label and confidence; an emitted record of a track not
\* matched in this frame carries "unknown" and 0.0.
C10_LabelFromMatch ==
  last_call = "update" =>
    \A j \in 1..Len(ret) :
      IF MatchedDets(ret[j].id) = {}
      THEN ret[j].class_label = "unknown" /\ ret[j].confidence = Zero
      ELSE \A d \in MatchedDets(ret[j].id) :
             /\ ret[j].class_label = detections[d].class_label
             /\ ret[j].confidence = detections[d].confidence

\* one list with a matched track and an older track that was not matched
C10_Witness ==
  /\ last_call = "update"
  /\ \E j \in 1..Len(ret) :
       /\ MatchedDets(ret[j].id) # {}
       /\ ret[j].class_label = "car" /\ ret[j].confidence = Lit0_5
  /\ \E j \in 1..Len(ret) :
       /\ ret[j].time_since_update > 0
       /\ ret[j].class_label = "unknown" /\ ret[j].confidence = Zero

\* C11: a fresh Tracker with min_hits = 3 that is given the same single
\* detection on each of its first 3 update calls returns exactly one track on
\* each of these calls, and the track has the same id on all of them.
C11_GracePeriodEmits ==
  ( last_call = "update" /\ min_hits = 3 /\ frame_count <= 3
      /\ same_feed /\ Len(detections) = 1 ) =>
    /\ Len(ret) = 1
    /\ first_seen = << ret[1].id >>
    /\ emits[ret[1].id + 1] = frame_count
    /\ SameBox(ret[1].bbox, detections[1].bbox)

\* the third call: the track is emitted although its hit_streak is below min_hits
C11_Witness ==
  /\ last_call = "update" /\ min_hits = 3 /\ frame_count = 3
  /\ same_feed /\ Len(detections) = 1
  /\ Len(ret) = 1
  /\ Len(before_prune) = 1
  /\ before_prune[1].hit_streak = 2
  /\ before_prune[1].hit_streak < min_hits

\* C12: with max_age = 1, a track that one update call emits after creating
\* or correcting it (its record has time_since_update = 0) and that is given
\* no matching detection in the next call is emitted by that next call too,
\* with time_since_update = 1.
C12_EmittedAfterOneMiss ==
  [][ ( last_call' = "update" /\ max_age = 1 ) =>
        \A j \in 1..Len(ret) :
          ( ret[j].time_since_update = 0 /\ ret[j].id \notin CorrectedIds' ) =>
            \E k \in 1..Len(ret') :
              ret'[k].id = ret[j].id /\ ret'[k].time_since_update = 1 ]_vars

\* C13: every Track record returned by update has
\* 0 <= time_since_update <= max_age; and after max_age + 1 consecutive update
\* calls with an empty detection list, update returns an empty list.
C13_EmittedWithinMaxAge ==
  last_call = "update" =>
    /\ \A k \in 1..Len(ret) :
         0 <= ret[k].time_since_update /\ ret[k].time_since_update <= max_age
    /\ empty_run >= max_age + 1 => ret = << >>

\* tracks existed, one of them emitted with time_since_update = max_age > 0,
\* and a run of max_age + 1 empty calls has ended with tracks still stored
C13_Witness ==
  /\ last_call = "update"
  /\ empty_run = max_age + 1
  /\ max_age >= 1
  /\ before_prune # << >>
  /\ \E id \in 1..Len(emits) : emits[id] >= 2
  /\ ret = << >>

\* C14: when the same two detections with zero mutual overlap (a person and a
\* car) are fed on every frame from frame 1, every update from the third frame
\* on returns exactly two tracks with distinct ids; each id stays attached to
\* the same object (the track created for it in frame 1, standing on its box),
\* and each track carries the class label of its own detection.
C14_TwoObjectsKeepIdentity ==
  ( last_call = "update" /\ same_feed /\ frame_count >= 3 /\ Len(detections) = 2
      /\ EqF(_iou(detections[1].bbox, detections[2].bbox), Zero) ) =>
    /\ Len(ret) = 2
    /\ ret[1].id # ret[2].id
    /\ \A k \in 1..2 :
         /\ \E d \in 1..2 :
              /\ ret[k].born = << 1, d >>
              /\ SameBox(ret[k].bbox, detections[d].bbox)
              /\ ret[k].class_label = detections[d].class_label
         /\ \A p \in seen : p[1] = ret[k].id => p[2] = ret[k].born
         /\ emits[ret[k].id + 1] = frame_count

\* third frame of a person and a car standing apart
C14_Witness ==
  /\ last_call = "update" /\ same_feed /\ frame_count >= 3
  /\ Len(detections) = 2
  /\ EqF(_iou(detections[1].bbox, detections[2].bbox), Zero)
  /\ { ret[k].class_label : k \in 1..Len(ret) } = { "person", "car" }
  /\ min_hits = 3

\* the whole number n of 0..MaxCoord + 1 that the double v holds
IntOf(v) == CHOOSE n \in 0..(MaxCoord + 1) : float(n) = v

\* the unit cells a box covers
Cells(b) ==
  { << x, y >> : x \in IntOf(b[1])..(IntOf(b[3]) - 1),
                 y \in IntOf(b[2])..(IntOf(b[4]) - 1) }
IsProperBox(b) == LtF(b[1], b[3]) /\ LtF(b[2], b[4])

\* C16: for boxes with x1 < x2 and y1 < y2, _iou(a, b) is the area of the
\* overlap over the area of the union; it is exactly 1 for identical boxes,
\* exactly 0 for boxes that do not overlap (touching edges included), lies in
\* [0, 1] and does not depend on the order of its arguments; it is 0 when the
\* union area area_a + area_b - overlap is <= 0.
C16_IouProperties ==
  last_call = "_iou" =>
    LET a == call_args[1]
        b == call_args[2]
        r == call_out[1]
        I == Cardinality(Cells(a) \cap Cells(b))
        U == Cardinality(Cells(a) \cup Cells(b))
    IN  /\ ( IsProperBox(a) /\ IsProperBox(b) ) =>
             /\ r = DivF(float(I), float(U))
             /\ a = b => r = One
             /\ I = 0 => r = Zero
             /\ LeqF(Zero, r) /\ LeqF(r, One)
             /\ call_out[2] = r
        /\ U <= 0 => r = Zero

\* two proper boxes that overlap in part, neither inside the other
C16_Witness ==
  /\ last_call = "_iou"
  /\ IsProperBox(call_args[1]) /\ IsProperBox(call_args[2])
  /\ LtF(Zero, call_out[1]) /\ LtF(call_out[1], One)
  /\ ~ (Cells(call_args[1]) \subseteq Cells(call_args[2]))
  /\ ~ (Cells(call_args[2]) \subseteq Cells(call_args[1]))

\* C17: the trajectory history accumulates across frames: after a track has
\* been emitted on k frames, the history of its latest record holds the centre
\* points of its most recent min(k, 30) emitted frames, the newest last, so its
\* length is min(k, 30) and never exceeds 30.
C17_HistoryAccumulates ==
  last_call = "update" =>
    \A k \in 1..Len(ret) :
      /\ Len(ret[k].history) = Min(emits[ret[k].id + 1], HistoryLimit)
      /\ ret[k].history[Len(ret[k].history)] = Centre(ret[k].bbox)

IsFiniteBox(b) == \A k \in 1..4 : ~ IsNaN(b[k]) /\ ~ IsInf(b[k])

\* C18: every track whose predicted box is not finite (a NaN or an infinite
\* coordinate) is removed before association, and the predicted boxes that
\* remain are index-aligned with the live tracks that remain: row t is the
\* prediction of live track t.
C18_NonFiniteRemovedAligned ==
  last_call = "update" =>
    /\ \A t \in 1..Len(after_predict) : IsFiniteBox(get_state(after_predict[t]))
    /\ Len(trks) = Len(after_predict)
    /\ \A t \in 1..Len(trks) : trks[t] = get_state(after_predict[t])

\* C19: a Tracker cannot be constructed with an invalid configuration: a
\* negative max_age, a negative min_hits or an iou_threshold outside [0, 1] is
\* rejected at construction time, so no Tracker holds such a configuration.
C19_InvalidConfigRejected ==
  /\ max_age >= 0
  /\ min_hits >= 0
  /\ LeqF(Zero, iou_threshold) /\ LeqF(iou_threshold, One)

\* C20: the id counter is private to each Tracker: the ids a Tracker gives to
\* the tracks it creates depend only on its own calls, a fresh Tracker gives id
\* 0 to its first track (and k - 1 to its k-th), whatever other Trackers of the
\* process do in between.
C20_PrivateCounter ==
  \A k \in 1..Len(created) : created[k] = k - 1

\* C15: with one detection per frame whose box moves slowly (a 100 x 100 box
\* shifted by 5 px per frame), the detection stays matched to the same track
\* on every frame: no second track is ever created and the id emitted on every
\* frame is the id emitted on the first frame.
C15_SlowMotionKeepsTrack ==
  last_call = "update" =>
    /\ Len(created) = 1
    /\ Len(trackers) = 1
    /\ Len(ret) = 1
    /\ ret[1].id = created[1]
    /\ emits[created[1] + 1] = frame_count
    /\ frame_count >= 2 => Len(assoc.matches) = 1

\* third frame of a box that moved by (5, 5) twice; the filter has picked up
\* the motion, and its prediction is within a tenth of a pixel of the box
C15_Witness ==
  /\ last_call = "update" /\ frame_count = 3
  /\ detections[1].bbox = Shifted(BoxStart, 10, 10)
  /\ Len(ret) = 1
  /\ Len(trks) = 1
  /\ \A k \in 1..4 :
       LeqF(AbsF(SubF(trks[1][k], Shifted(BoxStart, 10, 10)[k])), Lit0_1)
  /\ GtF(trackers[1].kf.x[5], Zero)
  /\ trackers[1].hits = 2

\* C21: a live track that was not matched to a detection in a frame (its
\* time_since_update is > 0 when update returns) has hit_streak = 0 when that
\* update call returns.
C21_MissResetsStreak ==
  last_call = "update" =>
    \A k \in 1..Len(trackers) :
      trackers[k].time_since_update > 0 => trackers[k].hit_streak = 0

\* the tolerance of the round trip: a millionth of a pixel
Tolerance == Lit1e_6

\* C22: for every box with positive width and height, _bbox_to_z yields the
\* centre (x1 + w/2, y1 + h/2), the area w * h and the aspect ratio w / h, and
\* _z_to_bbox(_bbox_to_z(box)) is the box again, within floating tolerance.
C22_GeometryRoundTrip ==
  last_call = "_z_to_bbox" =>
    LET box == call_args
        w == SubF(box[3], box[1])
        h == SubF(box[4], box[2])
        z == call_out[1]
    IN  ( GtF(w, Zero) /\ GtF(h, Zero) ) =>
          /\ z[1] = AddF(box[1], HalfF(w))
          /\ z[2] = AddF(box[2], HalfF(h))
          /\ z[3] = MulF(w, h)
          /\ z[4] = DivF(w, h)
          /\ \A k \in 1..4 : LeqF(AbsF(SubF(call_out[2][k], box[k])), Tolerance)

\* C23: each confirmed match (d, t) corrects exactly the live track whose
\* predicted box was row t of the association, with the box of detection d;
\* no track is corrected twice in a frame, and a live track outside every
\* confirmed match is left as predict set it.
C23_MatchCorrectsComparedTrack ==
  last_call = "update" =>
    /\ \A k \in 1..Len(assoc.matches) :
         LET d == assoc.matches[k][1]
             t == assoc.matches[k][2]
         IN  /\ t <= Len(after_predict)
             /\ trks[t] = get_state(after_predict[t])
             /\ before_prune[t] = update(after_predict[t], detections[d].bbox)
    /\ \A j, k \in 1..Len(assoc.matches) :
         j # k => assoc.matches[j][2] # assoc.matches[k][2]
    /\ \A t \in 1..Len(after_predict) :
         t \notin Range(Column(assoc.matches, 2)) => before_prune[t] = after_predict[t]

\* C24: in every update call each unmatched detection creates exactly one new
\* track and nothing else does: the call consumes as many ids as there are
\* unmatched detections; a new track is seeded with its detection's box and
\* starts with age, hits, hit_streak and time_since_update 0; and it takes no
\* part in the association of the frame that created it (the association has
\* rows only for tracks that existed before the call).
C24_OneTrackPerUnmatchedDetection ==
  [][ last_call' = "update" =>
        LET u == assoc'.unmatched_detections
            old == Len(after_predict')
        IN  /\ count' - count = Len(u)
            /\ Len(created') = Len(created) + Len(u)
            /\ Len(before_prune') = old + Len(u)
            /\ \A k \in 1..Len(u) :
                 LET trk == before_prune'[old + k]
                 IN  /\ trk.id = count + k - 1
                     /\ trk.id = created'[Len(created) + k]
                     /\ trk.born = << frame_count', u[k] >>
                     /\ trk.kf = KalmanFilter(_bbox_to_z(detections'[u[k]].bbox))
                     /\ trk.age = 0 /\ trk.hits = 0
                     /\ trk.hit_streak = 0 /\ trk.time_since_update = 0
                     /\ trk.id \notin { trackers[j].id : j \in 1..Len(trackers) }
            /\ Len(trks') <= Len(trackers)
            /\ \A k \in 1..Len(assoc'.matches) : assoc'.matches[k][2] <= old ]_vars

\* a frame in which one detection is matched to an older track and another
\* one, unmatched, creates a track
C24_Witness ==
  /\ last_call = "update"
  /\ Len(assoc.matches) = 1
  /\ Len(assoc.unmatched_detections) = 1
  /\ Len(before_prune) = Len(after_predict) + 1
  /\ before_prune[Len(before_prune)].age = 0
  /\ before_prune[Len(before_prune)].id = count - 1

\* C25: the per-track lifecycle is one-way: a track that an update call has
\* emitted is emitted by every later update call for as long as it is live; a
\* track emitted by one call and still live after the next call is in the list
\* that next call returns.
C25_ConfirmedStaysReported ==
  [][ last_call' = "update" =>
        \A j \in 1..Len(ret) :
          ret[j].id \in { trackers'[k].id : k \in 1..Len(trackers') } =>
            ret[j].id \in { ret'[k].id : k \in 1..Len(ret') } ]_vars

\* C26: the correction of a matched track sets its time_since_update to 0 and
\* adds exactly one to its hits and to its hit_streak; a track matched in a
\* frame has time_since_update = 0 from then on until the next frame's
\* predict, so also in the state update leaves behind.
C26_CorrectResetsAndCounts ==
  last_call = "update" =>
    /\ \A k \in 1..Len(assoc.matches) :
         LET t == assoc.matches[k][2]
         IN  /\ before_prune[t].time_since_update = 0
             /\ before_prune[t].hits = after_predict[t].hits + 1
             /\ before_prune[t].hit_streak = after_predict[t].hit_streak + 1
             /\ before_prune[t].age = after_predict[t].age
    /\ \A j \in 1..Len(trackers) :
         trackers[j].id \in CorrectedIds => trackers[j].time_since_update = 0

\* a track matched for the second time in a row, live after the call
C26_Witness ==
  /\ last_call = "update"
  /\ \E k \in 1..Len(assoc.matches) :
       /\ after_predict[assoc.matches[k][2]].hit_streak = 1
       /\ before_prune[assoc.matches[k][2]].hit_streak = 2
       /\ before_prune[assoc.matches[k][2]].hits = 2
       /\ before_prune[assoc.matches[k][2]].id \in LiveIds

\* C27: every update call predicts every live track exactly once, and predict
\* adds exactly one to age and to time_since_update; so the age of a live
\* track is the number of update calls made since the call that created it.
C27_AgeCountsFrames ==
  [][ last_call' = "update" =>
        /\ Len(after_predict') = Len(trackers)
        /\ \A t \in 1..Len(trackers) :
             /\ after_predict'[t].id = trackers[t].id
             /\ after_predict'[t].age = trackers[t].age + 1
             /\ after_predict'[t].time_since_update = trackers[t].time_since_update + 1
        /\ \A j \in 1..Len(trackers') :
             trackers'[j].age = frame_count' - trackers'[j].born[1] ]_vars

\* a track of the first frame and one of the third are live
C27_Witness ==
  /\ last_call = "update"
  /\ \E i, k \in 1..Len(trackers) :
       /\ trackers[i].age = 2 /\ trackers[k].age = 0
       /\ trackers[i].born[1] = 1 /\ trackers[k].born[1] = 3 /\ frame_count = 3

\* C28 as stated: predict resets hit_streak to 0 when the filter was updated
\* in the previous frame (time_since_update = 0 on entry).
C28_ResetWhenJustUpdated ==
  [][ ( last_call' = "predict" /\ trackers[1].time_since_update = 0 ) =>
        trackers'[1].hit_streak = 0 ]_vars

\* C28 amended: predict resets hit_streak to 0 exactly when the filter was not
\* updated since the previous predict (time_since_update > 0 on entry, tested
\* before the increment); with time_since_update = 0 on entry hit_streak is
\* left as it is; time_since_update is then incremented by one.
C28_ResetWhenNotUpdated ==
  [][ last_call' = "predict" =>
        /\ trackers'[1].hit_streak =
             IF trackers[1].time_since_update > 0 THEN 0 ELSE trackers[1].hit_streak
        /\ trackers'[1].time_since_update = trackers[1].time_since_update + 1 ]_vars

\* the second predict in a row after a correction: the streak that the first
\* predict kept is gone
C28_Witness ==
  /\ last_call = "predict"
  /\ trackers[1].time_since_update = 2
  /\ trackers[1].hits = 2
  /\ trackers[1].hit_streak = 0

\* C29: when the area plus the area velocity is <= 0 on entry, predict sets
\* the area velocity to 0 before the constant-velocity step (the area then
\* stays where it was); otherwise the area moves by the area velocity.  So an
\* area that is >= 0 before predict is >= 0 after it.
C29_AreaGuard ==
  [][ last_call' = "predict" =>
        LET s == trackers[1].kf.x[3]
            vs == trackers[1].kf.x[7]
        IN  /\ LeqF(AddF(s, vs), Zero) => /\ EqF(trackers'[1].kf.x[3], s)
                                          /\ EqF(trackers'[1].kf.x[7], Zero)
            /\ GtF(AddF(s, vs), Zero) => /\ EqF(trackers'[1].kf.x[3], AddF(s, vs))
                                         /\ EqF(trackers'[1].kf.x[7], vs)
            /\ LeqF(Zero, s) => LeqF(Zero, trackers'[1].kf.x[3]) ]_vars

\* a track corrected with a much smaller box had picked up an area velocity
\* that would have taken the area below 0; the guard has zeroed it
C29_Witness ==
  /\ last_call = "predict"
  /\ GtF(call_args[1], Zero) /\ LtF(call_args[2], Zero)
  /\ LtF(AddF(call_args[1], call_args[2]), Zero)
  /\ EqF(trackers[1].kf.x[3], call_args[1])
  /\ EqF(trackers[1].kf.x[7], Zero)

\* C30: every live track has 0 <= hit_streak <= hits <= age and
\* 0 <= time_since_update <= age, and frame_count is the number of update
\* calls made so far: every call adds exactly one to it, a call with an empty
\* detection list included.
C30_CountersOrdered ==
  [][ last_call' = "update" =>
        /\ frame_count' = frame_count + 1
        /\ \A k \in 1..Len(trackers') :
             /\ 0 <= trackers'[k].hit_streak
             /\ trackers'[k].hit_streak <= trackers'[k].hits
             /\ trackers'[k].hits <= trackers'[k].age
             /\ 0 <= trackers'[k].time_since_update
             /\ trackers'[k].time_since_update <= trackers'[k].age ]_vars

\* the third call, with no detection, leaves a track that was matched once and
\* has missed this frame
C30_Witness ==
  /\ last_call = "update"
  /\ frame_count = 3
  /\ detections = << >>
  /\ \E k \in 1..Len(trackers) :
       /\ trackers[k].age = 2 /\ trackers[k].hits = 1
       /\ trackers[k].hit_streak = 1 /\ trackers[k].time_since_update = 1

====
